---------------------------- MODULE Spec2Model ----------------------------
(***************************************************************************)
(* State-machine model of the multiplayer game server core:                *)
(*   GameServer  (src/server/src/app.js, lines 24-539)   socket handlers   *)
(*   RoomManager (src/server/src/app.js, lines 553-1117) rooms, combat     *)
(*   GameManager (src/server/README.md, lines 226-612)   game loop part    *)
(*                                                                         *)
(* Time is the value of Date.now() in milliseconds.  JavaScript Maps are   *)
(* modelled as sequences in insertion order (room.players) or as functions *)
(* over the set of keys (the room registry, whose keys are allocated in    *)
(* increasing order, and connectedClients).                                *)
(***************************************************************************)
EXTENDS Integers, Sequences, FiniteSets, TLC

(***************************************************************************)
(* Bounds of the model.                                                     *)
(***************************************************************************)
MaxClients == 2        \* sockets that may connect; also the number of player ids
MaxRoomIds == 1        \* rooms ever created (uuids are never reused)
MaxRounds == 1         \* games ended per room (stats.roundsPlayed)
MaxKills == 1          \* deaths per room (stats.totalDeaths)
MaxShots == 1          \* rounds a player fires from a full magazine
MaxSteps == 1          \* 10 s steps of the clock in which client events arrive
ArenaPlayers == 3      \* players of the room in which the combat is exercised
MaxWaits == 2          \* weapon cooldowns waited out in that room
MaxBurst == 2          \* player_shoot events the validator sees
MaxJoins == 4          \* players joining a fresh room one after the other
MaxMoves == 3          \* movement samples the validator accepts after the first
FireSpans == 3         \* half windows of the rate limiter the shot validator runs for
HealthCap == 200       \* largest health negative damage reports may produce
maxRooms == 1          \* RoomManager.maxRooms: the deployment's MAX_ROOMS

(***************************************************************************)
(* Program constants.                                                       *)
(***************************************************************************)
DefaultMaxPlayers == 8       \* maxPlayers || 8
maxPlayersPerRoom == 8       \* parseInt(process.env.MAX_PLAYERS_PER_ROOM) || 8
maxShootingRate == 10        \* parseFloat(process.env.MAX_SHOOTING_RATE) || 10.0
maxMovementSpeed == 10       \* parseFloat(process.env.MAX_MOVEMENT_SPEED) || 10.0
MovementThreshold == 5       \* violationThresholds.movement
ShootingThreshold == 10      \* violationThresholds.shooting
GeneralThreshold == 15       \* violationThresholds.general
MaxDelta == 1000             \* max 1 second between updates
MaxMovementHistory == 20     \* keep only last 20 movements
RateWindow == 1000           \* checkRateLimit: 1 second window
MaxShotHistory == 50         \* keep only last 50 shots
MinPlayers == 2              \* players.size >= 2 starts, < 2 ends a game
maxHealth == 100             \* gameConfig.maxHealth
RifleAmmo == 30              \* ammo: 30
DefaultDamage == 25          \* damageData.damage || 25
KillScore == 100             \* score += 100
ResetDelay == 10000          \* setTimeout(..., 10000)
InactivityTimeout == 30000   \* cleanupInactivePlayers timeout
MaxSpawnPoints == 16         \* Math.min(room.maxPlayers * 2, 16)
RespawnDelay == 5000         \* gameConfig.respawnTime

StartTime == 1000 * 1000     \* Date.now() when the server is constructed
MaxTime == StartTime + MaxSteps * ResetDelay   \* client events arrive until then
Horizon == MaxTime + InactivityTimeout + 1     \* the clock stops there

NoRoom == 0                  \* client.roomId === null
NULL == "null"               \* null player id, team or winner

Name(prefix, i) ==
    CASE i = 1 -> prefix \o "1" [] i = 2 -> prefix \o "2" [] i = 3 -> prefix \o "3"
      [] i = 4 -> prefix \o "4" [] OTHER -> prefix \o "5"

Sockets == {Name("s", i) : i \in 1..MaxClients}
PlayerIds == {Name("p", i) : i \in 1..MaxClients}
AllPlayerIds == {Name("p", i) : i \in 1..5}    \* every id Name produces
RoomIds == 1..MaxRoomIds
GameModes == {"deathmatch", "teamDeathmatch", "elimination"}

Min(a, b) == IF a <= b THEN a ELSE b
Max(a, b) == IF a >= b THEN a ELSE b

VARIABLES
    now,        \* Date.now()
    clients,    \* GameServer.connectedClients: socket -> {playerId, roomId}
    rooms,      \* RoomManager.rooms: roomId -> room
    nextRoomId, \* the next fresh room id (uuidv4)
    antiCheat   \* AntiCheat: rateLimits, playerData, suspiciousActivities

vars == <<now, clients, rooms, nextRoomId, antiCheat>>

(***************************************************************************)
(* room.players: a JavaScript Map, kept as the sequence of its values in   *)
(* insertion order.  Map.set on a present key replaces the value in place. *)
(***************************************************************************)
Keys(players) == {players[i].playerId : i \in 1..Len(players)}

HasPlayer(players, pid) == pid \in Keys(players)

IndexOf(players, pid) == CHOOSE i \in 1..Len(players) : players[i].playerId = pid

GetPlayer(players, pid) == players[IndexOf(players, pid)]

MapSet(players, p) ==
    IF HasPlayer(players, p.playerId)
    THEN [players EXCEPT ![IndexOf(players, p.playerId)] = p]
    ELSE Append(players, p)

MapDelete(players, pid) == SelectSeq(players, LAMBDA p : p.playerId # pid)

SocketsOf(players) == {players[i].socket : i \in 1..Len(players)}

(***************************************************************************)
(* Events, as the values the operations return next to the new state.      *)
(* `to' is the set of sockets a broadcastToRoom reaches, {s} for  *)
(* socket.emit, and {} for socket.to(room) / io.to(room), whose audience   *)
(* is socket.io's own room membership.                                     *)
(***************************************************************************)
Ev(ev, room, to, player, winner, reason) ==
    [ev |-> ev, room |-> room, to |-> to, player |-> player,
     winner |-> winner, reason |-> reason]

\* RoomManager.broadcastToRoom: every player of the room that has a socket
broadcastToRoom(room, ev, player, winner, reason) ==
    Ev(ev, room.id, SocketsOf(room.players), player, winner, reason)

HasEvent(evs, name) == \E i \in 1..Len(evs) : evs[i].ev = name

(***************************************************************************)
(* Spawn points.  generateSpawnPoints puts min(2 * maxPlayers, 16) points  *)
(* on a ring of radius 0.3 * mapSize + random * 0.2 * mapSize, y = 1.  The *)
(* model keeps the count, takes the random part as 0 (mapSize 50, radius   *)
(* 15) and keeps the points of the ring whose coordinates are integers:    *)
(* point i sits on the axis direction i mod 4.                             *)
(***************************************************************************)
\* Coordinates are kept in steps of 1/Grid of a unit, so that the player
\* radius of 0.5 is a whole number of steps.
Grid == 2

\* the point {x, y, z} of the map
At(x, y, z) == <<x * Grid, y * Grid, z * Grid>>

RingPoint(i) ==
    CASE i % 4 = 0 -> At(15, 1, 0)
      [] i % 4 = 1 -> At(0, 1, 15)
      [] i % 4 = 2 -> At(0 - 15, 1, 0)
      [] OTHER     -> At(0, 1, 0 - 15)

generateSpawnPoints(maxP) ==
    LET numSpawnPoints == Min(maxP * 2, MaxSpawnPoints)
    IN  [i \in 1..Max(numSpawnPoints, 0) |-> RingPoint(i - 1)]

\* getRandomSpawnPoint: Math.random() is the choice `pick' (any natural)
getRandomSpawnPoint(room, pick) ==
    IF Len(room.spawnPoints) = 0
    THEN At(0, 1, 0)
    ELSE room.spawnPoints[(pick % Len(room.spawnPoints)) + 1]

SpawnPicks == [PlayerIds -> 0..1]

(***************************************************************************)
(* RoomManager.createRoom: the room object.  requested is roomData's       *)
(* maxPlayers (0 stands for a missing or zero value, which is falsy).      *)
(* The fields no operation reads are left out: name, isPrivate, password,  *)
(* createdBy, createdAt, lastActivity, spectators, mapSize, the gameConfig *)
(* constants, and gameState's startTime, endTime and lastUpdate, which     *)
(* only feed the duration that game_ended reports.                         *)
(***************************************************************************)
InitialGameState ==
    [isActive |-> FALSE, isGameOver |-> FALSE, winner |-> NULL]

NewRoom(roomId, mode, requested) ==
    LET maxP == Min(IF requested = 0 THEN DefaultMaxPlayers ELSE requested,
                    maxPlayersPerRoom)
    IN  [id |-> roomId,
         gameMode |-> mode,
         maxPlayers |-> maxP,
         players |-> <<>>,
         gameState |-> InitialGameState,
         spawnPoints |-> generateSpawnPoints(maxP),
         stats |-> [totalKills |-> 0, totalDeaths |-> 0, roundsPlayed |-> 0],
         resetTimers |-> <<>>]

\* createRoom without the test of the room cap
createRoom_NoCap(rs, roomId, mode, requested) ==
    [rooms |-> [r \in DOMAIN rs \cup {roomId} |->
                   IF r = roomId THEN NewRoom(roomId, mode, requested) ELSE rs[r]],
     roomId |-> roomId]

\* createRoom(roomData) -> roomId | null (NoRoom)
createRoom(rs, roomId, mode, requested) ==
    IF Cardinality(DOMAIN rs) >= maxRooms
    THEN [rooms |-> rs, roomId |-> NoRoom]
    ELSE [rooms |-> [r \in DOMAIN rs \cup {roomId} |->
                        IF r = roomId THEN NewRoom(roomId, mode, requested) ELSE rs[r]],
          roomId |-> roomId]

Username(pid) == "Player_" \o pid    \* `Player_${playerId.substring(0, 8)}`

\* assignTeam giving team B on a tie
assignTeam_TieToB(room) ==
    IF room.gameMode = "teamDeathmatch" \/ room.gameMode = "elimination"
    THEN LET teamA == Len(SelectSeq(room.players, LAMBDA p : p.team = "A"))
             teamB == Len(SelectSeq(room.players, LAMBDA p : p.team = "B"))
         IN  IF teamA < teamB THEN "A" ELSE "B"
    ELSE NULL

\* RoomManager.assignTeam
assignTeam(room) ==
    IF room.gameMode = "teamDeathmatch" \/ room.gameMode = "elimination"
    THEN LET teamA == Len(SelectSeq(room.players, LAMBDA p : p.team = "A"))
             teamB == Len(SelectSeq(room.players, LAMBDA p : p.team = "B"))
         IN  IF teamA <= teamB THEN "A" ELSE "B"
    ELSE NULL

\* startGame without the restoring of health and the alive flag
startGame_NoRevive(room, sp, t) ==
    LET fresh(p) == [p EXCEPT !.position = getRandomSpawnPoint(room, sp[p.playerId]),
                              !.currentWeapon = "rifle", !.ammo = RifleAmmo,
                              !.kills = 0, !.deaths = 0, !.score = 0]
        r1 == [room EXCEPT !.gameState.isActive = TRUE,
                           !.gameState.isGameOver = FALSE,
                           !.gameState.winner = NULL,
                           !.players = [i \in 1..Len(room.players) |-> fresh(room.players[i])]]
    IN  [room |-> r1,
         events |-> <<broadcastToRoom(r1, "game_started", NULL, NULL, NULL)>>]

\* RoomManager.startGame
startGame(room, sp, t) ==
    LET fresh(p) == [p EXCEPT !.health = maxHealth, !.isAlive = TRUE,
                              !.position = getRandomSpawnPoint(room, sp[p.playerId]),
                              !.currentWeapon = "rifle", !.ammo = RifleAmmo,
                              !.kills = 0, !.deaths = 0, !.score = 0]
        r1 == [room EXCEPT !.gameState.isActive = TRUE,
                           !.gameState.isGameOver = FALSE,
                           !.gameState.winner = NULL,
                           !.players = [i \in 1..Len(room.players) |-> fresh(room.players[i])]]
    IN  [room |-> r1,
         events |-> <<broadcastToRoom(r1, "game_started", NULL, NULL, NULL)>>]

\* RoomManager.determineWinner.  Array.prototype.reduce without an initial
\* value throws a TypeError on an empty array: the value "TypeError".
RECURSIVE reduceKills(_, _, _)
reduceKills(players, i, prev) ==
    IF i > Len(players) THEN prev
    ELSE reduceKills(players, i + 1,
                     IF prev.kills > players[i].kills THEN prev ELSE players[i])

\* determineWinner testing team B's emptiness before team A's
determineWinner_AFirst(room) ==
    IF room.gameMode = "teamDeathmatch" \/ room.gameMode = "elimination"
    THEN LET teamA == SelectSeq(room.players, LAMBDA p : p.team = "A" /\ p.isAlive)
             teamB == SelectSeq(room.players, LAMBDA p : p.team = "B" /\ p.isAlive)
         IN  IF Len(teamB) = 0 THEN "Team A"
             ELSE IF Len(teamA) = 0 THEN "Team B"
             ELSE NULL
    ELSE IF Len(room.players) = 0 THEN "TypeError"
         ELSE reduceKills(room.players, 2, room.players[1]).username

determineWinner(room) ==
    IF room.gameMode = "teamDeathmatch" \/ room.gameMode = "elimination"
    THEN LET teamA == SelectSeq(room.players, LAMBDA p : p.team = "A" /\ p.isAlive)
             teamB == SelectSeq(room.players, LAMBDA p : p.team = "B" /\ p.isAlive)
         IN  IF Len(teamA) = 0 THEN "Team B"
             ELSE IF Len(teamB) = 0 THEN "Team A"
             ELSE NULL
    ELSE IF Len(room.players) = 0 THEN "TypeError"
         ELSE reduceKills(room.players, 2, room.players[1]).username

\* winnerFor computing a winner whatever the reason
winnerFor_Always(room, reason) == determineWinner(room)

\* the winner endGame records for a reason
winnerFor(room, reason) ==
    IF reason # "Not enough players" THEN determineWinner(room)
    ELSE room.gameState.winner

\* endGame without the setTimeout
endGame_NoTimer(room, reason, t) ==
    LET w == winnerFor(room, reason)
        r1 == [room EXCEPT !.gameState.isActive = FALSE,
                           !.gameState.isGameOver = TRUE,
                           !.gameState.winner = w,
                           !.stats.roundsPlayed = @ + 1]
    IN  [room |-> r1,
         events |-> <<broadcastToRoom(r1, "game_ended", NULL, w, reason)>>]

\* RoomManager.endGame; the setTimeout is a deadline appended to resetTimers
endGame(room, reason, t) ==
    LET w == winnerFor(room, reason)
        r1 == [room EXCEPT !.gameState.isActive = FALSE,
                           !.gameState.isGameOver = TRUE,
                           !.gameState.winner = w,
                           !.stats.roundsPlayed = @ + 1,
                           !.resetTimers = Append(@, t + ResetDelay)]
    IN  [room |-> r1,
         events |-> <<broadcastToRoom(r1, "game_ended", NULL, w, reason)>>]

\* resetPlayer without the alive flag
resetPlayer_KeepDead(room, p, pick) ==
    [p EXCEPT !.health = maxHealth,
              !.position = getRandomSpawnPoint(room, pick),
              !.currentWeapon = "rifle", !.ammo = RifleAmmo]

\* the player state resetRoom writes
resetPlayer(room, p, pick) ==
    [p EXCEPT !.health = maxHealth, !.isAlive = TRUE,
              !.position = getRandomSpawnPoint(room, pick),
              !.currentWeapon = "rifle", !.ammo = RifleAmmo]

\* RoomManager.resetRoom
resetRoom(room, sp) ==
    LET r1 == [room EXCEPT !.gameState = InitialGameState,
                           !.players = [i \in 1..Len(room.players) |->
                               resetPlayer(room, room.players[i],
                                           sp[room.players[i].playerId])]]
    IN  [room |-> r1,
         events |-> <<broadcastToRoom(r1, "room_reset", NULL, NULL, NULL)>>]

\* a respawnTime that is not set: undefined or null, falsy like 0
NoTime == 0

\* the player data addPlayerToRoom creates; respawnTime is a property the
\* data does not have (undefined), which only GameManager code reads or writes
NewPlayer(room, playerId, socket, pick, t) ==
    [playerId |-> playerId, socket |-> socket, username |-> Username(playerId),
     team |-> assignTeam(room),
     position |-> getRandomSpawnPoint(room, pick),
     health |-> maxHealth, isAlive |-> TRUE,
     currentWeapon |-> "rifle", ammo |-> RifleAmmo,
     lastShotTime |-> 0, canShoot |-> TRUE, lastActivity |-> t,
     kills |-> 0, deaths |-> 0, score |-> 0,
     respawnTime |-> NoTime]

\* the room-is-full test of addPlayerToRoom and handleJoinRoom
RoomIsFull(room) == Len(room.players) >= room.maxPlayers

\* the start condition of addPlayerToRoom
ShouldStart(room) == Len(room.players) >= MinPlayers /\ ~room.gameState.isActive

\* RoomManager.addPlayerToRoom -> true | false
addPlayerToRoom(rs, roomId, playerId, socket, sp, t) ==
    IF roomId \notin DOMAIN rs THEN [rooms |-> rs, ok |-> FALSE, events |-> <<>>]
    ELSE IF RoomIsFull(rs[roomId]) THEN [rooms |-> rs, ok |-> FALSE, events |-> <<>>]
    ELSE LET room == rs[roomId]
             r1 == [room EXCEPT !.players =
                       MapSet(@, NewPlayer(room, playerId, socket, sp[playerId], t))]
             st == IF ShouldStart(r1) THEN startGame(r1, sp, t)
                   ELSE [room |-> r1, events |-> <<>>]
         IN  [rooms |-> [rs EXCEPT ![roomId] = st.room], ok |-> TRUE,
              events |-> st.events]

\* the end condition of removePlayerFromRoom
ShouldEnd(room) == Len(room.players) < MinPlayers /\ room.gameState.isActive

\* RoomManager.removePlayerFromRoom
removePlayerFromRoom(rs, roomId, playerId, t) ==
    IF roomId \notin DOMAIN rs THEN [rooms |-> rs, events |-> <<>>]
    ELSE IF ~HasPlayer(rs[roomId].players, playerId) THEN [rooms |-> rs, events |-> <<>>]
    ELSE LET r1 == [rs[roomId] EXCEPT !.players = MapDelete(@, playerId)]
             en == IF ShouldEnd(r1) THEN endGame(r1, "Not enough players", t)
                   ELSE [room |-> r1, events |-> <<>>]
         IN  [rooms |-> [rs EXCEPT ![roomId] = en.room], events |-> en.events]

(***************************************************************************)
(* Combat.  Vectors are integer triples <<x, y, z>>, positions in steps of *)
(* 1/Grid, directions unit vectors along an axis.  Math.sqrt is monotone,  *)
(* so distances are compared by their squares: d <= 0.5 units is           *)
(* 4 * d^2 <= Grid^2 in steps.                                             *)
(***************************************************************************)
getWeaponDamage(w) ==
    CASE w = "pistol" -> 25 [] w = "rifle" -> 35 [] w = "shotgun" -> 60 [] OTHER -> 25

getWeaponRange(w) ==
    CASE w = "pistol" -> 30 [] w = "rifle" -> 60 [] w = "shotgun" -> 15 [] OTHER -> 30

getWeaponFireRate(w) ==
    CASE w = "pistol" -> 2 [] w = "rifle" -> 8 [] w = "shotgun" -> 1 [] OTHER -> 2

getWeaponMaxAmmo(w) ==
    CASE w = "pistol" -> 12 [] w = "rifle" -> 30 [] w = "shotgun" -> 8 [] OTHER -> 30

subtractVectors(a, b) == <<a[1] - b[1], a[2] - b[2], a[3] - b[3]>>
addVectors(a, b) == <<a[1] + b[1], a[2] + b[2], a[3] + b[3]>>
multiplyVector(v, k) == <<v[1] * k, v[2] * k, v[3] * k>>
dotProduct(a, b) == a[1] * b[1] + a[2] * b[2] + a[3] * b[3]
distanceSq(a, b) == dotProduct(subtractVectors(a, b), subtractVectors(a, b))

NoVector == <<>>    \* a missing shotData.origin

\* raycastToPlayer without the test of the weapon's range
raycastToPlayer_NoRange(origin, direction, player, maxDistance) ==
    LET toPlayer == subtractVectors(player.position, origin)
        projectionLength == dotProduct(toPlayer, direction)
        closestPoint == addVectors(origin, multiplyVector(direction, projectionLength))
    IN  IF projectionLength < 0 THEN [hit |-> FALSE, point |-> NoVector]
        ELSE IF 4 * distanceSq(closestPoint, player.position) <= Grid * Grid
             THEN [hit |-> TRUE, point |-> closestPoint]
             ELSE [hit |-> FALSE, point |-> NoVector]

\* RoomManager.raycastToPlayer -> hit point | null
raycastToPlayer(origin, direction, player, maxDistance) ==
    LET toPlayer == subtractVectors(player.position, origin)
        projectionLength == dotProduct(toPlayer, direction)
        closestPoint == addVectors(origin, multiplyVector(direction, projectionLength))
    IN  IF projectionLength < 0 THEN [hit |-> FALSE, point |-> NoVector]
        ELSE IF 4 * distanceSq(closestPoint, player.position) <= Grid * Grid
                /\ projectionLength <= maxDistance * Grid
             THEN [hit |-> TRUE, point |-> closestPoint]
             ELSE [hit |-> FALSE, point |-> NoVector]

\* the loop of calculateHit from player i on; best is closestHit or 0
RECURSIVE closestHitFrom(_, _, _, _, _, _)
closestHitFrom(players, i, shooter, origin, direction, best) ==
    IF i > Len(players) THEN best
    ELSE LET player == players[i]
             skip == player.playerId = shooter.playerId \/ ~player.isAlive
             rc == raycastToPlayer(origin, direction, player,
                                   getWeaponRange(shooter.currentWeapon))
             closer == best = 0
                       \/ distanceSq(origin, rc.point)
                            < distanceSq(origin,
                                 raycastToPlayer(origin, direction, players[best],
                                    getWeaponRange(shooter.currentWeapon)).point)
         IN  closestHitFrom(players, i + 1, shooter, origin, direction,
                            IF ~skip /\ rc.hit /\ closer THEN i ELSE best)

\* RoomManager.calculateHit
calculateHit(room, shooter, shotData) ==
    LET rayOrigin == IF shotData.origin = NoVector THEN shooter.position
                     ELSE shotData.origin
        best == closestHitFrom(room.players, 1, shooter, rayOrigin,
                               shotData.direction, 0)
    IN  IF best # 0
        THEN [kind |-> "hit", reason |-> NULL, targetId |-> room.players[best].playerId]
        ELSE [kind |-> "miss", reason |-> "No target hit", targetId |-> NULL]

\* the damage a hit of processShot applies to the target and credits to the shooter
applyShotDamage(room, shooterId, targetId) ==
    LET shooter == GetPlayer(room.players, shooterId)
        target == GetPlayer(room.players, targetId)
        health == Max(0, target.health - getWeaponDamage(shooter.currentWeapon))
        dead == health <= 0
        t1 == [target EXCEPT !.health = health,
                             !.isAlive = IF dead THEN FALSE ELSE @,
                             !.deaths = IF dead THEN @ + 1 ELSE @]
        ps1 == MapSet(room.players, t1)
        s1 == [GetPlayer(ps1, shooterId) EXCEPT
                  !.kills = IF dead THEN @ + 1 ELSE @,
                  !.score = IF dead THEN @ + KillScore ELSE @]
    IN  [room EXCEPT !.players = MapSet(ps1, s1),
                     !.stats.totalKills = IF dead THEN @ + 1 ELSE @,
                     !.stats.totalDeaths = IF dead THEN @ + 1 ELSE @]

\* processShot consuming the round before the cooldown and ammo tests
processShot_ConsumeFirst(rs, roomId, shooterId, shotData, t) ==
    LET none == [kind |-> "null", reason |-> NULL, targetId |-> NULL]
    IN  IF roomId \notin DOMAIN rs THEN [rooms |-> rs, ret |-> none]
        ELSE IF ~HasPlayer(rs[roomId].players, shooterId)
                \/ ~GetPlayer(rs[roomId].players, shooterId).isAlive
        THEN [rooms |-> rs, ret |-> none]
        ELSE LET room == rs[roomId]
                 shooter == GetPlayer(room.players, shooterId)
                 fireRate == getWeaponFireRate(shooter.currentWeapon)
                 s1 == [shooter EXCEPT !.ammo = @ - 1, !.lastShotTime = t]
                 r1 == [room EXCEPT !.players = MapSet(@, s1)]
                 rs1 == [rs EXCEPT ![roomId] = r1]
             IN  IF (t - shooter.lastShotTime) * fireRate < 1000
                 THEN [rooms |-> rs1,
                       ret |-> [kind |-> "miss", reason |-> "Rate limited", targetId |-> NULL]]
                 ELSE IF shooter.ammo <= 0
                 THEN [rooms |-> rs1,
                       ret |-> [kind |-> "miss", reason |-> "No ammo", targetId |-> NULL]]
                 ELSE LET hitResult == calculateHit(r1, s1, shotData)
                          r2 == IF hitResult.kind = "hit"
                                THEN applyShotDamage(r1, shooterId, hitResult.targetId)
                                ELSE r1
                      IN  [rooms |-> [rs EXCEPT ![roomId] = r2], ret |-> hitResult]

\* RoomManager.processShot(roomId, shooterId, shotData)
processShot(rs, roomId, shooterId, shotData, t) ==
    LET none == [kind |-> "null", reason |-> NULL, targetId |-> NULL]
    IN  IF roomId \notin DOMAIN rs THEN [rooms |-> rs, ret |-> none]
        ELSE IF ~HasPlayer(rs[roomId].players, shooterId)
                \/ ~GetPlayer(rs[roomId].players, shooterId).isAlive
        THEN [rooms |-> rs, ret |-> none]
        ELSE LET room == rs[roomId]
                 shooter == GetPlayer(room.players, shooterId)
                 fireRate == getWeaponFireRate(shooter.currentWeapon)
             IN  IF (t - shooter.lastShotTime) * fireRate < 1000
                 THEN [rooms |-> rs,
                       ret |-> [kind |-> "miss", reason |-> "Rate limited", targetId |-> NULL]]
                 ELSE IF shooter.ammo <= 0
                 THEN [rooms |-> rs,
                       ret |-> [kind |-> "miss", reason |-> "No ammo", targetId |-> NULL]]
                 ELSE LET s1 == [shooter EXCEPT !.ammo = @ - 1, !.lastShotTime = t]
                          r1 == [room EXCEPT !.players = MapSet(@, s1)]
                          hitResult == calculateHit(r1, s1, shotData)
                          r2 == IF hitResult.kind = "hit"
                                THEN applyShotDamage(r1, shooterId, hitResult.targetId)
                                ELSE r1
                      IN  [rooms |-> [rs EXCEPT ![roomId] = r2], ret |-> hitResult]

\* damageData.damage || 25 (0 stands for a missing or zero damage)
damageOf(reported) == IF reported = 0 THEN DefaultDamage ELSE reported

\* damagedHealth without the clamp at 0
damagedHealth_NoClamp(health, damage) == health - damage

\* the health processDamage leaves a target with
damagedHealth(health, damage) == Max(0, health - damage)

\* RoomManager.processDamage(roomId, attackerId, damageData)
processDamage(rs, roomId, attackerId, targetId, reported) ==
    IF roomId \notin DOMAIN rs THEN [rooms |-> rs, ok |-> FALSE]
    ELSE IF ~HasPlayer(rs[roomId].players, targetId)
            \/ ~GetPlayer(rs[roomId].players, targetId).isAlive
    THEN [rooms |-> rs, ok |-> FALSE]
    ELSE LET room == rs[roomId]
             target == GetPlayer(room.players, targetId)
             health == damagedHealth(target.health, damageOf(reported))
             isDead == health <= 0
             t1 == [target EXCEPT !.health = health,
                                  !.isAlive = IF isDead THEN FALSE ELSE @,
                                  !.deaths = IF isDead THEN @ + 1 ELSE @]
             ps1 == MapSet(room.players, t1)
             ps2 == IF isDead /\ HasPlayer(ps1, attackerId)
                    THEN MapSet(ps1, [GetPlayer(ps1, attackerId) EXCEPT
                                         !.kills = @ + 1, !.score = @ + KillScore])
                    ELSE ps1
             r1 == [room EXCEPT !.players = ps2,
                                !.stats.totalKills = IF isDead THEN @ + 1 ELSE @,
                                !.stats.totalDeaths = IF isDead THEN @ + 1 ELSE @]
         IN  [rooms |-> [rs EXCEPT ![roomId] = r1], ok |-> TRUE]

(***************************************************************************)
(* AntiCheat.  Its three Maps are kept as functions over the player ids; a *)
(* key the Map does not hold has the value the code creates for it on      *)
(* first use: an empty window (rateLimits), no last position, times 0 and  *)
(* empty histories (playerData), no violation (suspiciousActivities).      *)
(* A shot history entry is kept as its timestamp and a movement history    *)
(* entry as its position: the code reads nothing else of them.             *)
(***************************************************************************)
NewAntiCheat ==
    [rateLimits |-> [p \in AllPlayerIds |-> <<>>],
     lastPosition |-> [p \in AllPlayerIds |-> NoVector],
     lastPositionTime |-> [p \in AllPlayerIds |-> 0],
     movementHistory |-> [p \in AllPlayerIds |-> <<>>],
     lastShotTime |-> [p \in AllPlayerIds |-> 0],
     shotHistory |-> [p \in AllPlayerIds |-> <<>>],
     movement |-> [p \in AllPlayerIds |-> 0],
     shooting |-> [p \in AllPlayerIds |-> 0],
     general |-> [p \in AllPlayerIds |-> 0]]

\* checkRateLimit letting one action more into the window
checkRateLimit_OneMore(ac, playerId, t) ==
    LET actions == SelectSeq(ac.rateLimits[playerId], LAMBDA a : a >= t - RateWindow)
    IN  IF Len(actions) > maxShootingRate
        THEN [ac |-> [ac EXCEPT !.rateLimits[playerId] = actions], ok |-> FALSE]
        ELSE [ac |-> [ac EXCEPT !.rateLimits[playerId] = Append(actions, t)],
              ok |-> TRUE]

\* AntiCheat.checkRateLimit(playerId, 'shooting', maxShootingRate)
checkRateLimit(ac, playerId, t) ==
    LET actions == SelectSeq(ac.rateLimits[playerId], LAMBDA a : a >= t - RateWindow)
    IN  IF Len(actions) >= maxShootingRate
        THEN [ac |-> [ac EXCEPT !.rateLimits[playerId] = actions], ok |-> FALSE]
        ELSE [ac |-> [ac EXCEPT !.rateLimits[playerId] = Append(actions, t)],
              ok |-> TRUE]

\* AntiCheat.violationThresholds
violationThresholds ==
    [movement |-> MovementThreshold, shooting |-> ShootingThreshold,
     general |-> GeneralThreshold]

\* AntiCheat.kickPlayer(playerId, reason): suspiciousActivities.delete(playerId)
kickPlayer(ac, playerId) ==
    [ac EXCEPT !.movement[playerId] = 0, !.shooting[playerId] = 0,
               !.general[playerId] = 0]

\* AntiCheat.checkViolationThresholds(playerId)
checkViolationThresholds(ac, playerId) ==
    IF \/ ac.movement[playerId] >= violationThresholds.movement
       \/ ac.shooting[playerId] >= violationThresholds.shooting
       \/ ac.general[playerId] >= violationThresholds.general
    THEN kickPlayer(ac, playerId)
    ELSE ac

\* AntiCheat.recordViolation(playerId, type, reason)
recordViolation(ac, playerId, type) ==
    checkViolationThresholds([ac EXCEPT ![type][playerId] = @ + 1], playerId)

\* AntiCheat.validateShooting(playerId, shotData); shotData.playerHealth is
\* not sent
validateShooting(ac, playerId, shotData, t) ==
    LET rl == checkRateLimit(ac, playerId, t)
    IN  IF ~rl.ok THEN [ac |-> recordViolation(rl.ac, playerId, "shooting"), ok |-> FALSE]
        ELSE IF shotData.origin = NoVector
        THEN [ac |-> recordViolation(rl.ac, playerId, "shooting"), ok |-> FALSE]
        ELSE IF (t - rl.ac.lastShotTime[playerId]) * maxShootingRate < 1000
        THEN [ac |-> recordViolation(rl.ac, playerId, "shooting"), ok |-> FALSE]
        ELSE LET pushed == Append(rl.ac.shotHistory[playerId], t)
             IN  [ac |-> [rl.ac EXCEPT
                            !.lastShotTime[playerId] = t,
                            !.shotHistory[playerId] =
                                IF Len(pushed) > MaxShotHistory THEN Tail(pushed)
                                ELSE pushed],
                  ok |-> TRUE]

(***************************************************************************)
(* AntiCheat, the movement part.  A reported position is a vector of       *)
(* whole steps of 1/MoveGrid unit, so a distance is kept as the square of  *)
(* its length in steps and every comparison of the code is made on the     *)
(* squares: distance / (timeDelta / 1000) > maxMovementSpeed is            *)
(* distance * 1000 > maxMovementSpeed * timeDelta.                         *)
(***************************************************************************)
MoveGrid == maxMovementSpeed   \* steps per unit: one step is 10 ms at full speed

Pos(x, y, z) == <<x, y, z>>

\* tooFast with the limit itself counted as too fast
tooFast_Inclusive(distSq, timeDelta) ==
    distSq * (1000 \div MoveGrid) * (1000 \div MoveGrid)
        >= (maxMovementSpeed * timeDelta) * (maxMovementSpeed * timeDelta)

\* speed > this.maxMovementSpeed, with speed = distance / (timeDelta / 1000)
tooFast(distSq, timeDelta) ==
    distSq * (1000 \div MoveGrid) * (1000 \div MoveGrid)
        > (maxMovementSpeed * timeDelta) * (maxMovementSpeed * timeDelta)

\* AntiCheat.calculateAngleBetweenVectors(v1, v2) > 90: the angle is 0 when
\* either vector has no length, and above 90 degrees when the cosine is
\* negative
angleAbove90(v1, v2) ==
    /\ dotProduct(v1, v1) # 0
    /\ dotProduct(v2, v2) # 0
    /\ dotProduct(v1, v2) < 0

\* AntiCheat.isMovementThroughWall(from, to)
isMovementThroughWall(from, to) ==
    /\ distanceSq(from, to) > (10 * MoveGrid) * (10 * MoveGrid)
    /\ distanceSq(Pos(0, 0, 0), to) < (5 * MoveGrid) * (5 * MoveGrid)

\* AntiCheat.isImpossibleMovement(player, newPosition, timeDelta);
\* calculateDirection(from, to) has the direction of to - from
isImpossibleMovement(lastPosition, history, newPosition, timeDelta) ==
    IF Len(history) < 2 THEN FALSE
    ELSE LET lastMovement == history[Len(history)]
             lastDirection == subtractVectors(lastMovement, lastPosition)
             newDirection == subtractVectors(newPosition, lastMovement)
         IN  \/ angleAbove90(lastDirection, newDirection) /\ timeDelta < 50
             \/ isMovementThroughWall(lastPosition, newPosition)

\* invalidDelta with a sample of the same millisecond let through
invalidDelta_SameMs(timeDelta) == timeDelta < 0 \/ timeDelta > MaxDelta

\* AntiCheat.validateMovement: timeDelta <= 0 || timeDelta > 1000
invalidDelta(timeDelta) == timeDelta <= 0 \/ timeDelta > MaxDelta

\* AntiCheat.validateMovement(movementData) at Date.now() = t
validateMovement(ac, playerId, position, t) ==
    IF playerId = NULL \/ position = NoVector THEN [ac |-> ac, ok |-> FALSE]
    ELSE IF ac.lastPosition[playerId] = NoVector
    THEN [ac |-> [ac EXCEPT !.lastPosition[playerId] = position,
                            !.lastPositionTime[playerId] = t],
          ok |-> TRUE]
    ELSE LET last == ac.lastPosition[playerId]
             distSq == distanceSq(last, position)
             timeDelta == t - ac.lastPositionTime[playerId]
         IN  IF invalidDelta(timeDelta)
             THEN [ac |-> recordViolation(ac, playerId, "movement"), ok |-> FALSE]
             ELSE IF tooFast(distSq, timeDelta)
             THEN [ac |-> recordViolation(ac, playerId, "movement"), ok |-> FALSE]
             ELSE IF distSq > (maxMovementSpeed * 2 * MoveGrid)
                                  * (maxMovementSpeed * 2 * MoveGrid)
                     /\ timeDelta < 100
             THEN [ac |-> recordViolation(ac, playerId, "movement"), ok |-> FALSE]
             ELSE IF isImpossibleMovement(last, ac.movementHistory[playerId],
                                          position, timeDelta)
             THEN [ac |-> recordViolation(ac, playerId, "movement"), ok |-> FALSE]
             ELSE LET pushed == Append(ac.movementHistory[playerId], position)
                  IN  [ac |-> [ac EXCEPT
                                 !.lastPosition[playerId] = position,
                                 !.lastPositionTime[playerId] = t,
                                 !.movementHistory[playerId] =
                                     IF Len(pushed) > MaxMovementHistory
                                     THEN Tail(pushed) ELSE pushed],
                       ok |-> TRUE]

\* AntiCheat.resetPlayerViolations(playerId): both Maps lose the key
resetPlayerViolations(ac, playerId) ==
    [kickPlayer(ac, playerId) EXCEPT
        !.lastPosition[playerId] = NoVector,
        !.lastPositionTime[playerId] = 0,
        !.movementHistory[playerId] = <<>>,
        !.lastShotTime[playerId] = 0,
        !.shotHistory[playerId] = <<>>]

(***************************************************************************)
(* The tick (setupGameLoop): gameManager.update(), then                    *)
(* roomManager.updateAllRooms().  GameManager.update() walks               *)
(* GameManager.rooms, a Map of its own that the constructor creates empty  *)
(* and that no code adds to, so it visits no room of the registry.         *)
(***************************************************************************)
GameManagerRooms == {}

\* GameManager.endGame: the state it writes and its notification (its
\* setTimeout resets through GameManager.resetRoom and is left out)
gameManagerEndGame(room, winner) ==
    LET r1 == [room EXCEPT !.gameState.isGameOver = TRUE, !.gameState.winner = winner]
    IN  [room |-> r1, threw |-> FALSE,
         events |-> <<broadcastToRoom(r1, "game_ended", NULL, winner, NULL)>>]

\* GameManager.checkWinConditions with checkTeamWinCondition and
\* checkDeathmatchWinCondition.  With no living player alivePlayers[0] is
\* undefined and reading winner.playerId throws a TypeError before endGame.
checkWinConditions(room) ==
    LET alivePlayers == SelectSeq(room.players, LAMBDA p : p.isAlive)
        teamA == SelectSeq(alivePlayers, LAMBDA p : p.team = "A")
        teamB == SelectSeq(alivePlayers, LAMBDA p : p.team = "B")
        same == [room |-> room, threw |-> FALSE, events |-> <<>>]
    IN  IF room.gameMode = "teamDeathmatch" \/ room.gameMode = "elimination"
        THEN IF Len(teamA) = 0 THEN gameManagerEndGame(room, "B")
             ELSE IF Len(teamB) = 0 THEN gameManagerEndGame(room, "A")
             ELSE same
        ELSE IF Len(alivePlayers) > 1 THEN same
             ELSE IF Len(alivePlayers) = 1
                  THEN gameManagerEndGame(room, alivePlayers[1].playerId)
                  ELSE [room |-> room, threw |-> TRUE, events |-> <<>>]

\* GameManager.update: the rooms of GameManager.rooms, none of the registry
gameManagerUpdate(rs) ==
    [r \in DOMAIN rs |->
        IF r \in GameManagerRooms THEN checkWinConditions(rs[r]).room ELSE rs[r]]

\* RoomManager.cleanupInactivePlayers, from player i of the original order on
RECURSIVE cleanupFrom(_, _, _, _)
cleanupFrom(room, order, i, t) ==
    IF i > Len(order) THEN [room |-> room, events |-> <<>>]
    ELSE IF t - order[i].lastActivity > InactivityTimeout
    THEN LET r1 == [room EXCEPT !.players = MapDelete(@, order[i].playerId)]
             rest == cleanupFrom(r1, order, i + 1, t)
         IN  [room |-> rest.room,
              events |-> <<broadcastToRoom(r1, "player_disconnected",
                                           order[i].playerId, NULL, NULL)>>
                         \o rest.events]
    ELSE cleanupFrom(room, order, i + 1, t)

cleanupInactivePlayers(room, t) == cleanupFrom(room, room.players, 1, t)

\* RoomManager.updateAllRooms: empty rooms are deleted, the others cleaned
updateAllRooms(rs, t) ==
    LET kept == {r \in DOMAIN rs : Len(rs[r].players) # 0}
    IN  [r \in kept |-> cleanupInactivePlayers(rs[r], t).room]

\* one cycle of the game loop
tick(rs, t) == updateAllRooms(gameManagerUpdate(rs), t)

(***************************************************************************)
(* GameServer handlers.  Each returns the new connectedClients, the new    *)
(* registry and the events emitted, in order.                              *)
(***************************************************************************)
NewClient == [status |-> "open", playerId |-> NULL, roomId |-> NoRoom]
ClosedClient == [status |-> "closed", playerId |-> NULL, roomId |-> NoRoom]

ToSocket(s, ev, room, reason) == Ev(ev, room, {s}, NULL, NULL, reason)
ToOthers(ev, room, player) == Ev(ev, room, {}, player, NULL, NULL)

\* GameServer.handleLeaveRoom
handleLeaveRoom(cl, rs, s, t) ==
    IF cl[s].status # "open" \/ cl[s].roomId = NoRoom
    THEN [clients |-> cl, rooms |-> rs, events |-> <<>>]
    ELSE LET roomId == cl[s].roomId
             rm == IF roomId \in DOMAIN rs
                   THEN removePlayerFromRoom(rs, roomId, cl[s].playerId, t)
                   ELSE [rooms |-> rs, events |-> <<>>]
             left == IF roomId \in DOMAIN rs
                     THEN <<ToOthers("player_left", roomId, cl[s].playerId)>>
                     ELSE <<>>
         IN  [clients |-> [cl EXCEPT ![s].roomId = NoRoom],
              rooms |-> rm.rooms,
              events |-> rm.events \o left]

\* handleJoinRoom leaving the current room before it looks at the target
handleJoinRoom_LeaveFirst(cl, rs, s, roomId, sp, t) ==
    IF cl[s].status # "open" \/ cl[s].playerId = NULL
    THEN [clients |-> cl, rooms |-> rs,
          events |-> <<ToSocket(s, "error", NoRoom, "Not authenticated")>>]
    ELSE LET lv == handleLeaveRoom(cl, rs, s, t)
             ad == addPlayerToRoom(lv.rooms, roomId, lv.clients[s].playerId, s, sp, t)
         IN  IF ad.ok
             THEN [clients |-> [lv.clients EXCEPT ![s].roomId = roomId],
                   rooms |-> ad.rooms,
                   events |-> lv.events \o ad.events
                              \o <<ToOthers("player_joined", roomId, cl[s].playerId),
                                   ToSocket(s, "room_joined", roomId, NULL)>>]
             ELSE [clients |-> lv.clients, rooms |-> ad.rooms,
                   events |-> lv.events \o ad.events
                              \o <<ToSocket(s, "error", roomId, "Failed to join room")>>]

\* GameServer.handleJoinRoom
handleJoinRoom(cl, rs, s, roomId, sp, t) ==
    IF cl[s].status # "open" \/ cl[s].playerId = NULL
    THEN [clients |-> cl, rooms |-> rs,
          events |-> <<ToSocket(s, "error", NoRoom, "Not authenticated")>>]
    ELSE IF roomId \notin DOMAIN rs
    THEN [clients |-> cl, rooms |-> rs,
          events |-> <<ToSocket(s, "error", roomId, "Room not found")>>]
    ELSE IF RoomIsFull(rs[roomId])
    THEN [clients |-> cl, rooms |-> rs,
          events |-> <<ToSocket(s, "error", roomId, "Room is full")>>]
    ELSE LET lv == handleLeaveRoom(cl, rs, s, t)
             ad == addPlayerToRoom(lv.rooms, roomId, lv.clients[s].playerId, s, sp, t)
         IN  IF ad.ok
             THEN [clients |-> [lv.clients EXCEPT ![s].roomId = roomId],
                   rooms |-> ad.rooms,
                   events |-> lv.events \o ad.events
                              \o <<ToOthers("player_joined", roomId, cl[s].playerId),
                                   ToSocket(s, "room_joined", roomId, NULL)>>]
             ELSE [clients |-> lv.clients, rooms |-> ad.rooms,
                   events |-> lv.events \o ad.events
                              \o <<ToSocket(s, "error", roomId, "Failed to join room")>>]

\* GameServer.handleCreateRoom
handleCreateRoom(cl, rs, s, roomId, mode, requested, sp, t) ==
    IF cl[s].status # "open" \/ cl[s].playerId = NULL
    THEN [clients |-> cl, rooms |-> rs, roomId |-> NoRoom,
          events |-> <<ToSocket(s, "error", NoRoom, "Not authenticated")>>]
    ELSE LET cr == createRoom(rs, roomId, mode,
                              IF requested = 0 THEN DefaultMaxPlayers ELSE requested)
             jn == handleJoinRoom(cl, cr.rooms, s, cr.roomId, sp, t)
         IN  IF cr.roomId # NoRoom
             THEN [clients |-> jn.clients, rooms |-> jn.rooms, roomId |-> cr.roomId,
                   events |-> jn.events
                              \o <<ToSocket(s, "room_created", cr.roomId, NULL)>>]
             ELSE [clients |-> cl, rooms |-> rs, roomId |-> NoRoom,
                   events |-> <<ToSocket(s, "error", NoRoom, "Failed to create room")>>]

\* GameServer.handleDisconnect
handleDisconnect(cl, rs, s, t) ==
    LET lv == handleLeaveRoom(cl, rs, s, t)
    IN  [clients |-> [lv.clients EXCEPT ![s] = ClosedClient],
         rooms |-> lv.rooms, events |-> lv.events]

\* GameServer.handlePlayerShoot.  The room the registry returns is the plain
\* object createRoom built, which has no processShot method: once the
\* validation has passed, room.processShot(...) throws a TypeError, and the
\* handler ends there, nothing broadcast.
handlePlayerShoot(ac, cl, rs, s, data, t) ==
    IF s \notin DOMAIN cl \/ cl[s].status # "open" \/ cl[s].roomId = NoRoom
    THEN [antiCheat |-> ac, rooms |-> rs, validated |-> FALSE, threw |-> FALSE]
    ELSE LET v == validateShooting(ac, cl[s].playerId, data, t)
         IN  [antiCheat |-> v.ac, rooms |-> rs, validated |-> TRUE,
              threw |-> v.ok /\ cl[s].roomId \in DOMAIN rs]

\* GameServer.handlePlayerMove(socket, data): validateMovement reads the
\* player id of the payload; room.updatePlayerPosition is not a function of
\* the room object createRoom builds, so the call throws a TypeError
handlePlayerMove(ac, cl, rs, s, data, t) ==
    IF s \notin DOMAIN cl \/ cl[s].status # "open" \/ cl[s].roomId = NoRoom
    THEN [antiCheat |-> ac, validated |-> FALSE, accepted |-> FALSE, threw |-> FALSE]
    ELSE LET v == validateMovement(ac, data.playerId, data.position, t)
         IN  [antiCheat |-> v.ac, validated |-> TRUE, accepted |-> v.ok,
              threw |-> v.ok /\ cl[s].roomId \in DOMAIN rs]

\* GameServer.handlePlayerRotate, handlePlayerReload and handlePlayerDamage:
\* each calls a method the room object does not have (updatePlayerRotation,
\* reloadPlayerWeapon, processDamage) as soon as the client's room is found
handlePlayerRotate(cl, rs, s) ==
    [threw |-> /\ s \in DOMAIN cl /\ cl[s].status = "open"
               /\ cl[s].roomId # NoRoom /\ cl[s].roomId \in DOMAIN rs]

handlePlayerReload(cl, rs, s) ==
    [threw |-> /\ s \in DOMAIN cl /\ cl[s].status = "open"
               /\ cl[s].roomId # NoRoom /\ cl[s].roomId \in DOMAIN rs]

handlePlayerDamage(cl, rs, s) ==
    [threw |-> /\ s \in DOMAIN cl /\ cl[s].status = "open"
               /\ cl[s].roomId # NoRoom /\ cl[s].roomId \in DOMAIN rs]

(***************************************************************************)
(* The state machine.                                                      *)
(***************************************************************************)
\* the caps on the counters that would otherwise grow without bound
Bounded(rs) ==
    \A r \in DOMAIN rs :
        /\ rs[r].stats.roundsPlayed <= MaxRounds
        /\ rs[r].stats.totalDeaths <= MaxKills
        /\ \A i \in 1..Len(rs[r].players) :
              /\ rs[r].players[i].health <= HealthCap
              /\ rs[r].players[i].ammo >= RifleAmmo - MaxShots

Init ==
    /\ now = StartTime
    /\ clients = [s \in Sockets |-> [status |-> "new", playerId |-> NULL, roomId |-> NoRoom]]
    /\ rooms = <<>>
    /\ nextRoomId = 1
    /\ antiCheat = NewAntiCheat

\* io.on('connection')
Connect(s) ==
    /\ now <= MaxTime
    /\ clients[s].status = "new"
    /\ clients' = [clients EXCEPT ![s] = NewClient]
    /\ UNCHANGED <<now, rooms, nextRoomId, antiCheat>>

\* GameServer.handleAuthentication: a missing player id is refused
Authenticate(s, pid) ==
    /\ now <= MaxTime
    /\ clients[s].status = "open"
    /\ clients' = IF pid = NULL THEN clients ELSE [clients EXCEPT ![s].playerId = pid]
    /\ UNCHANGED <<now, rooms, nextRoomId, antiCheat>>

RequestedMaxPlayers == {0 - 1, 0, 1}

CreateRoom(s, mode, requested) ==
    /\ now <= MaxTime
    /\ clients[s].status = "open"
    /\ nextRoomId <= MaxRoomIds \/ Cardinality(DOMAIN rooms) >= maxRooms
    /\ \E sp \in SpawnPicks :
         LET h == handleCreateRoom(clients, rooms, s, nextRoomId, mode, requested, sp, now)
         IN  /\ Bounded(h.rooms)
             /\ clients' = h.clients
             /\ rooms' = h.rooms
             /\ nextRoomId' = IF h.roomId # NoRoom THEN nextRoomId + 1 ELSE nextRoomId
    /\ UNCHANGED <<now, antiCheat>>

JoinRoom(s, roomId) ==
    /\ now <= MaxTime
    /\ clients[s].status = "open"
    /\ \E sp \in SpawnPicks :
         LET h == handleJoinRoom(clients, rooms, s, roomId, sp, now)
         IN  /\ Bounded(h.rooms)
             /\ clients' = h.clients
             /\ rooms' = h.rooms
    /\ UNCHANGED <<now, nextRoomId, antiCheat>>

LeaveRoom(s) ==
    /\ now <= MaxTime
    /\ clients[s].status = "open"
    /\ LET h == handleLeaveRoom(clients, rooms, s, now)
       IN  /\ Bounded(h.rooms)
           /\ clients' = h.clients
           /\ rooms' = h.rooms
    /\ UNCHANGED <<now, nextRoomId, antiCheat>>

Disconnect(s) ==
    /\ now <= MaxTime
    /\ clients[s].status = "open"
    /\ LET h == handleDisconnect(clients, rooms, s, now)
       IN  /\ Bounded(h.rooms)
           /\ clients' = h.clients
           /\ rooms' = h.rooms
    /\ UNCHANGED <<now, nextRoomId, antiCheat>>

\* shot payloads: the origin may be missing; directions are unit vectors
ShotInputs ==
    {[origin |-> NoVector, direction |-> <<1, 0, 0>>],
     [origin |-> At(0, 1, 0), direction |-> <<1, 0, 0>>],
     [origin |-> At(0, 1, 0), direction |-> <<0, 0, 1>>]}

\* RoomManager.processShot, the room's part of a player_shoot
Shoot(roomId, shooterId, shotData) ==
    /\ now <= MaxTime
    /\ roomId \in DOMAIN rooms
    /\ LET h == processShot(rooms, roomId, shooterId, shotData, now)
       IN  /\ Bounded(h.rooms)
           /\ rooms' = h.rooms
    /\ UNCHANGED <<now, clients, nextRoomId, antiCheat>>

\* damage reports: a negative one and a lethal one
DamageInputs == {0 - 100, 100}

\* RoomManager.processDamage, the room's part of a player_damage
Damage(roomId, attackerId, targetId, reported) ==
    /\ now <= MaxTime
    /\ roomId \in DOMAIN rooms
    /\ LET h == processDamage(rooms, roomId, attackerId, targetId, reported)
       IN  /\ Bounded(h.rooms)
           /\ rooms' = h.rooms
    /\ UNCHANGED <<now, clients, nextRoomId, antiCheat>>

\* one cycle of the game loop (setupGameLoop)
Tick ==
    /\ rooms' = tick(rooms, now)
    /\ UNCHANGED <<now, clients, nextRoomId, antiCheat>>

\* the timer endGame set fires: the oldest deadline of the room, once reached
FireReset(roomId) ==
    /\ roomId \in DOMAIN rooms
    /\ rooms[roomId].resetTimers # <<>>
    /\ Head(rooms[roomId].resetTimers) <= now
    /\ \E sp \in SpawnPicks :
         LET popped == [rooms[roomId] EXCEPT !.resetTimers = Tail(@)]
         IN  rooms' = [rooms EXCEPT ![roomId] = resetRoom(popped, sp).room]
    /\ UNCHANGED <<now, clients, nextRoomId, antiCheat>>

TimeSteps == {ResetDelay, InactivityTimeout + 1}

\* the clock moves on; a timer fires at its deadline, so no deadline is skipped
Advance(d) ==
    /\ now + d <= (IF d = ResetDelay THEN MaxTime + ResetDelay ELSE Horizon)
    /\ \A r \in DOMAIN rooms : \A i \in 1..Len(rooms[r].resetTimers) :
          rooms[r].resetTimers[i] >= now + d
    /\ now' = now + d
    /\ UNCHANGED <<clients, rooms, nextRoomId, antiCheat>>

\* the timers and the clock, common to both next-state relations
Timers ==
    \/ Tick
    \/ \E roomId \in RoomIds : FireReset(roomId)
    \/ \E d \in TimeSteps : Advance(d)

\* Every operation, on deathmatch rooms, each connection authenticating
\* under a player id of its own.
Next ==
    \/ \E s \in Sockets : Connect(s)
    \/ \E i \in 1..MaxClients : Authenticate(Name("s", i), Name("p", i))
    \/ \E s \in Sockets, requested \in RequestedMaxPlayers :
          CreateRoom(s, "deathmatch", requested)
    \/ \E s \in Sockets, roomId \in RoomIds : JoinRoom(s, roomId)
    \/ \E s \in Sockets : LeaveRoom(s)
    \/ \E s \in Sockets : Disconnect(s)
    \/ \E roomId \in RoomIds, shooterId \in PlayerIds, shotData \in ShotInputs :
          Shoot(roomId, shooterId, shotData)
    \/ \E roomId \in RoomIds, attackerId \in PlayerIds, targetId \in PlayerIds,
          reported \in DamageInputs : Damage(roomId, attackerId, targetId, reported)
    \/ Timers

Spec == Init /\ [][Next]_vars

\* The connection and room operations alone, on rooms of every game mode,
\* a connection authenticating under any player id or none.
NextRooms ==
    \/ \E s \in Sockets : Connect(s)
    \/ \E s \in Sockets, pid \in PlayerIds \cup {NULL} : Authenticate(s, pid)
    \/ \E s \in Sockets, mode \in GameModes, requested \in RequestedMaxPlayers :
          CreateRoom(s, mode, requested)
    \/ \E s \in Sockets, roomId \in RoomIds : JoinRoom(s, roomId)
    \/ \E s \in Sockets : LeaveRoom(s)
    \/ \E s \in Sockets : Disconnect(s)
    \/ Timers

SpecRooms == Init /\ [][NextRooms]_vars

\* The event loop runs every timer that is due, and the clock moves on.
Fairness ==
    /\ \A roomId \in RoomIds : WF_vars(FireReset(roomId))
    /\ WF_vars(\E d \in TimeSteps : Advance(d))

LiveSpec == Init /\ [][NextRooms]_vars /\ Fairness

(***************************************************************************)
(* The combat operations of RoomManager, exercised on one room that the    *)
(* room operations have built: created with the default maxPlayers and     *)
(* joined by ArenaPlayers players, which started the game.  Since then the *)
(* players have moved (updatePlayerPosition stores the position a client   *)
(* reports) and the first of them has fired some rounds.                   *)
(***************************************************************************)
ArenaRoom == 1
ArenaIds == {Name("p", i) : i \in 1..ArenaPlayers}
ArenaSockets == {Name("s", i) : i \in 1..ArenaPlayers}
ArenaModes == {"deathmatch", "teamDeathmatch"}

\* the rifle's cooldown, 1000 / fireRate ms
Cooldown == 1000 \div getWeaponFireRate("rifle")

ArenaStart == StartTime + ResetDelay            \* the clock when the combat starts
ArenaEnd == ArenaStart + MaxWaits * Cooldown    \* and when it stops

\* the players join one after the other at StartTime
RECURSIVE joinAll(_, _, _)
joinAll(rs, i, mode) ==
    IF i > ArenaPlayers THEN rs
    ELSE joinAll(addPlayerToRoom(rs, ArenaRoom, Name("p", i), Name("s", i),
                                 [p \in ArenaIds |-> 0], StartTime).rooms,
                 i + 1, mode)

\* where the players stand: the first at the centre; the second on the x
\* axis through it or beside it (0.5 or 1 above it), in front or behind, at
\* the rifle's range or beyond it; the others in front or at the range
Centre == At(0, 1, 0)
InFront == At(5, 1, 0)
AtRange == At(getWeaponRange("rifle"), 1, 0)

ArenaPositions ==
    {InFront, <<5 * Grid, Grid + 1, 0>>, At(5, 2, 0),
     AtRange, At(getWeaponRange("rifle") + 1, 1, 0), At(0 - 5, 1, 0)}

ArenaPlacements ==
    {pos \in [ArenaIds -> ArenaPositions \cup {Centre}] :
        \A p \in ArenaIds :
           /\ pos[p] = Centre <=> p = Name("p", 1)
           /\ p \notin {Name("p", 1), Name("p", 2)} => pos[p] \in {InFront, AtRange}}

\* rounds the first player has fired: all but one, all
ArenaFired == {RifleAmmo - 1, RifleAmmo}

\* the room after the moves and the shots (the last one at time t)
arenaRoom(mode, pos, fired, t) ==
    LET room == joinAll(createRoom(<<>>, ArenaRoom, mode, DefaultMaxPlayers).rooms,
                        1, mode)[ArenaRoom]
        moved(p) == [p EXCEPT !.position = pos[p.playerId], !.lastActivity = t]
        shot(p) == IF p.playerId = Name("p", 1) /\ fired > 0
                   THEN [p EXCEPT !.ammo = @ - fired, !.lastShotTime = t]
                   ELSE p
    IN  [room EXCEPT !.players =
            [i \in 1..Len(room.players) |-> shot(moved(room.players[i]))]]

ArenaInit ==
    /\ now = ArenaStart
    /\ nextRoomId = ArenaRoom + 1
    /\ antiCheat = NewAntiCheat
    /\ clients = [s \in ArenaSockets |->
                    [status |-> "open",
                     playerId |-> CHOOSE p \in ArenaIds :
                                     \E i \in 1..ArenaPlayers :
                                        s = Name("s", i) /\ p = Name("p", i),
                     roomId |-> ArenaRoom]]
    /\ \E mode \in ArenaModes, pos \in ArenaPlacements, fired \in ArenaFired :
          rooms = (ArenaRoom :> arenaRoom(mode, pos, fired, ArenaStart))

\* shots along the x axis, from where the shooter stands or from the centre
ArenaShots ==
    {[origin |-> NoVector, direction |-> <<1, 0, 0>>],
     [origin |-> NoVector, direction |-> <<0 - 1, 0, 0>>],
     [origin |-> Centre, direction |-> <<1, 0, 0>>]}

\* RoomManager.processShot
ProcessShot(shooterId, shotData) ==
    /\ rooms' = processShot(rooms, ArenaRoom, shooterId, shotData, now).rooms
    /\ UNCHANGED <<now, clients, nextRoomId, antiCheat>>

\* RoomManager.processDamage with a lethal report (the first player's, on
\* any player: the attacker may be alive, dead, or the target)
ProcessDamage(attackerId, targetId) ==
    /\ rooms' = processDamage(rooms, ArenaRoom, attackerId, targetId, maxHealth).rooms
    /\ UNCHANGED <<now, clients, nextRoomId, antiCheat>>

\* the clock moves on by one cooldown of the rifle
Wait ==
    /\ now < ArenaEnd
    /\ now' = now + Cooldown
    /\ UNCHANGED <<clients, rooms, nextRoomId, antiCheat>>

NextArena ==
    \/ \E shooterId \in ArenaIds, shotData \in ArenaShots :
          ProcessShot(shooterId, shotData)
    \/ \E targetId \in ArenaIds : ProcessDamage(Name("p", 1), targetId)
    \/ Wait
    \/ Tick

SpecArena == ArenaInit /\ [][NextArena]_vars

\* player_shoot payloads: with and without an origin
ShootInputs_Valid == [origin |-> Centre, direction |-> <<1, 0, 0>>]
ShootInputs ==
    {ShootInputs_Valid, [origin |-> NoVector, direction |-> <<1, 0, 0>>]}

\* the events the validator has seen
Seen(ac) ==
    LET RECURSIVE sum(_)
        sum(S) == IF S = {} THEN 0
                  ELSE LET p == CHOOSE q \in S : TRUE
                       IN  Len(ac.rateLimits[p]) + sum(S \ {p})
    IN  sum(AllPlayerIds)

\* socket.on('player_shoot')
PlayerShoot(s, data) ==
    /\ Seen(antiCheat) < MaxBurst
    /\ LET h == handlePlayerShoot(antiCheat, clients, rooms, s, data, now)
       IN  /\ antiCheat' = h.antiCheat
           /\ rooms' = h.rooms
    /\ UNCHANGED <<now, clients, nextRoomId>>

\* The player_shoot handler next to the reports that kill players.
NextShoot ==
    \/ \E s \in ArenaSockets, data \in ShootInputs : PlayerShoot(s, data)
    \/ \E targetId \in ArenaIds : ProcessDamage(Name("p", 1), targetId)
    \/ Wait
    \/ Tick

SpecShoot == ArenaInit /\ [][NextShoot]_vars

(***************************************************************************)
(* The movement validator on its own: one player reports positions on a    *)
(* line through the map centre, at instants that are a few steps' time     *)
(* (StepTime: what one step takes at full speed) after the start or after  *)
(* the longest interval the validator allows.                              *)
(***************************************************************************)
MovePlayer == Name("p", 1)
StepTime == 1000 \div (maxMovementSpeed * MoveGrid)
MoveTimes == {StartTime + k * MaxDelta + i * StepTime : k \in 0..1, i \in 0..MaxMoves}
MoveInputs ==
    {Pos(0, 0, 0), Pos(1, 0, 0), Pos(2, 0, 0), Pos(100, 0, 0), Pos(101, 0, 0),
     NoVector}

\* GameServer.handlePlayerMove, the validation
Move(position) ==
    /\ Len(antiCheat.movementHistory[MovePlayer]) < MaxMoves
    /\ antiCheat' = validateMovement(antiCheat, MovePlayer, position, now).ac
    /\ UNCHANGED <<now, clients, rooms, nextRoomId>>

Pause(t) ==
    /\ t > now
    /\ now' = t
    /\ UNCHANGED <<clients, rooms, nextRoomId, antiCheat>>

NextMove ==
    \/ \E position \in MoveInputs : Move(position)
    \/ \E t \in MoveTimes : Pause(t)

SpecMove == Init /\ [][NextMove]_vars

(***************************************************************************)
(* The shot validator on its own: one player's shots are validated at      *)
(* instants half a rate-limit window apart.  validateBurst makes the calls *)
(* of a burst but the last: it returns the validator as the last call      *)
(* finds it, and that call's instant.                                      *)
(***************************************************************************)
FirePlayer == Name("p", 1)
FireTimes == {StartTime + k * (RateWindow \div 2) : k \in 0..FireSpans}

\* AntiCheat.validateShooting for one player
Fire(shotData) ==
    /\ antiCheat' = validateShooting(antiCheat, FirePlayer, shotData, now).ac
    /\ UNCHANGED <<now, clients, rooms, nextRoomId>>

NextFire ==
    \/ \E shotData \in ShootInputs : Fire(shotData)
    \/ \E t \in FireTimes : Pause(t)

SpecFire == Init /\ [][NextFire]_vars

RECURSIVE validateBurst(_, _, _, _, _)
validateBurst(ac, playerId, shotData, t, gaps) ==
    IF gaps = <<>> THEN [ac |-> ac, t |-> t]
    ELSE validateBurst(validateShooting(ac, playerId, shotData, t).ac, playerId,
                       shotData, t + Head(gaps), Tail(gaps))

\* The spacings of eleven calls within one window: the ten gaps are all 0,
\* half the minimum cooldown or the minimum cooldown; or one gap of a
\* cooldown, half a window or a whole window among gaps of 0; or the first
\* few a cooldown long and the others 0.
MinCooldown == 1000 \div maxShootingRate
Bursts ==
    {[i \in 1..maxShootingRate |-> g] : g \in {0, MinCooldown \div 2, MinCooldown}}
    \cup {[i \in 1..maxShootingRate |-> IF i = j THEN g ELSE 0] :
             j \in 1..maxShootingRate,
             g \in {MinCooldown, RateWindow \div 2, RateWindow}}
    \cup {[i \in 1..maxShootingRate |-> IF i <= j THEN MinCooldown ELSE 0] :
             j \in 1..maxShootingRate}

(***************************************************************************)
(* The states of a room's game (gameState.isActive, gameState.isGameOver). *)
(***************************************************************************)
Lobby(room) == room.gameState = InitialGameState
Active(room) == room.gameState.isActive /\ ~room.gameState.isGameOver
Ended(room) == ~room.gameState.isActive /\ room.gameState.isGameOver

GameStateOf(room) ==
    IF Active(room) THEN "Active"
    ELSE IF Ended(room) THEN "Ended"
    ELSE IF ~room.gameState.isActive /\ ~room.gameState.isGameOver THEN "Lobby"
    ELSE "Invalid"

Players(room) == {room.players[i] : i \in 1..Len(room.players)}

\* a player as startGame and resetRoom leave it
Fresh(p) ==
    /\ p.health = maxHealth
    /\ p.isAlive
    /\ p.currentWeapon = "rifle"
    /\ p.ammo = getWeaponMaxAmmo("rifle")

(***************************************************************************)
(* C1.  Every room has at most maxPlayers players, after any sequence of   *)
(* create, join, leave, disconnect and tick.                               *)
(* Refuted: createRoom takes the minimum of the requested maxPlayers and   *)
(* the server's cap and has no lower limit, so a request of -1 creates a   *)
(* room whose maxPlayers is -1, below its player count of 0.               *)
(***************************************************************************)
C1_RoomWithinCapacity ==
    \A r \in DOMAIN rooms : Len(rooms[r].players) <= rooms[r].maxPlayers

(***************************************************************************)
(* C2.  A room's game state changes only Lobby -> Active, Active -> Ended  *)
(* and Ended -> Lobby.                                                     *)
(* Refuted: addPlayerToRoom starts a game whenever the room has two        *)
(* players and isActive is false, which is also the case in an Ended room  *)
(* (Ended -> Active); the reset timer of the earlier game then resets the  *)
(* room while the new game runs (Active -> Lobby).                         *)
(***************************************************************************)
LegalTransitions == {<<"Lobby", "Active">>, <<"Active", "Ended">>, <<"Ended", "Lobby">>}

C2_OnlyLegalTransitions ==
    [][\A r \in DOMAIN rooms \cap DOMAIN rooms' :
          \/ GameStateOf(rooms[r]) = GameStateOf(rooms'[r])
          \/ <<GameStateOf(rooms[r]), GameStateOf(rooms'[r])>> \in LegalTransitions]_vars

(***************************************************************************)
(* C3.  In every reachable state, so after every damage application, game  *)
(* start and room reset, each player of each room has health 0 exactly     *)
(* when it is not alive.                                                   *)
(***************************************************************************)
C3_HealthZeroIffDead ==
    \A r \in DOMAIN rooms : \A p \in Players(rooms[r]) : (p.health = 0) <=> ~p.isAlive

\* C3 witness: a room with a player that a report killed and, next to it, a
\* living player that a shot wounded
C3_KilledAndWounded ==
    \E r \in DOMAIN rooms : \E p, q \in Players(rooms[r]) :
        /\ ~p.isAlive /\ p.health = 0 /\ p.deaths > 0
        /\ q.isAlive /\ q.health > 0 /\ q.health < maxHealth

(***************************************************************************)
(* C4.  The health of every player of every room is within 0..maxHealth,   *)
(* whatever damage a player_damage payload reports.                        *)
(* Refuted: processDamage subtracts the reported damage and clamps the     *)
(* result at 0 only, so a negative damage raises health above maxHealth.   *)
(***************************************************************************)
C4_HealthWithinRange ==
    \A r \in DOMAIN rooms : \A p \in Players(rooms[r]) :
        p.health >= 0 /\ p.health <= maxHealth

(***************************************************************************)
(* C5.  In every reachable state, an addPlayerToRoom that succeeds on a    *)
(* room whose game is not active and leaves it with at least two players   *)
(* starts the game in the same call: the room is Active, game_started is   *)
(* the event the call broadcasts, to the sockets of all members, and every *)
(* member has full health, is alive and holds a rifle with 30 rounds.      *)
(***************************************************************************)
C5_JoinStartsGame ==
    \A r \in DOMAIN rooms, pid \in PlayerIds, s \in Sockets, sp \in SpawnPicks :
        LET ad == addPlayerToRoom(rooms, r, pid, s, sp, now)
            post == ad.rooms[r]
        IN  (ad.ok /\ ~rooms[r].gameState.isActive /\ Len(post.players) >= 2)
            => /\ Active(post)
               /\ Len(ad.events) = 1
               /\ ad.events[1].ev = "game_started"
               /\ ad.events[1].to = SocketsOf(post.players)
               /\ s \in ad.events[1].to
               /\ \A p \in Players(post) : Fresh(p)

\* C5 witness: an Ended room holding a dead player with a spent round, which
\* a second player can join
C5_JoinOfEndedRoomWithDeadPlayer ==
    \E r \in DOMAIN rooms, pid \in PlayerIds, s \in Sockets, sp \in SpawnPicks :
        LET ad == addPlayerToRoom(rooms, r, pid, s, sp, now)
        IN  /\ ad.ok /\ Ended(rooms[r]) /\ Len(ad.rooms[r].players) >= 2
            /\ \E p \in Players(rooms[r]) : ~p.isAlive /\ p.ammo < RifleAmmo

(***************************************************************************)
(* C6.  No reachable state has an Active room with fewer than two players: *)
(* a leave, a disconnect or an idle eviction that takes the membership     *)
(* below two ends the game in the same operation.                          *)
(* Refuted: cleanupInactivePlayers deletes idle players from room.players  *)
(* directly and never calls endGame, so the tick that evicts the players   *)
(* of an Active room leaves the room Active.                               *)
(***************************************************************************)
C6_ActiveHasTwoPlayers ==
    \A r \in DOMAIN rooms :
        rooms[r].gameState.isActive => Len(rooms[r].players) >= MinPlayers

(***************************************************************************)
(* C7.  In every reachable state, a removePlayerFromRoom that takes a      *)
(* player out of a room with an active game and leaves fewer than two      *)
(* ends the game with reason 'Not enough players' and no winner: the       *)
(* winner in the game state and in the game_ended event is null.           *)
(***************************************************************************)
C7_LeaveEndsWithoutWinner ==
    \A r \in DOMAIN rooms, pid \in PlayerIds :
        LET rm == removePlayerFromRoom(rooms, r, pid, now)
            post == rm.rooms[r]
        IN  (/\ HasPlayer(rooms[r].players, pid)
             /\ rooms[r].gameState.isActive
             /\ Len(post.players) < MinPlayers)
            => /\ Ended(post)
               /\ post.gameState.winner = NULL
               /\ Len(rm.events) = 1
               /\ rm.events[1].ev = "game_ended"
               /\ rm.events[1].reason = "Not enough players"
               /\ rm.events[1].winner = NULL

\* C7 witness: an Active room of two, one dead and one with the kill, so a
\* computed winner would not be null
C7_LeaveAfterKill ==
    \E r \in DOMAIN rooms : \E p, q \in Players(rooms[r]) :
        /\ Active(rooms[r]) /\ Len(rooms[r].players) = 2
        /\ p.kills > 0 /\ ~q.isAlive
        /\ Len(removePlayerFromRoom(rooms, r, q.playerId, now).rooms[r].players) = 1

(***************************************************************************)
(* C8.  A room that is Ended is eventually back in Lobby (not active, not  *)
(* over, no winner), once the reset that endGame scheduled has run, unless *)
(* the registry dropped the room in the meantime (the timer then resets    *)
(* an object no operation can reach).  No room stays Ended forever.        *)
(***************************************************************************)
C8_EndedRoomIsReset ==
    \A r \in RoomIds :
        (r \in DOMAIN rooms /\ Ended(rooms[r]))
            ~> (r \notin DOMAIN rooms \/ Lobby(rooms[r]))

\* C8 witness: a room in Lobby that has played a round, its reset timers all
\* fired, at or after the deadline of the reset
C8_RoomBackInLobby ==
    \E r \in DOMAIN rooms :
        /\ Lobby(rooms[r])
        /\ rooms[r].stats.roundsPlayed > 0
        /\ rooms[r].resetTimers = <<>>
        /\ rooms[r].players # <<>>
        /\ now >= StartTime + ResetDelay

(***************************************************************************)
(* C9.  In every reachable state, resetRoom leaves every player of the     *)
(* room with full health, 30 rounds, the rifle and alive, whatever the     *)
(* player's state before, and a second resetRoom leaves the same health,   *)
(* ammo, weapon and alive flag as the first.                               *)
(***************************************************************************)
Vitals(room) ==
    [i \in 1..Len(room.players) |->
        <<room.players[i].playerId, room.players[i].health, room.players[i].ammo,
          room.players[i].currentWeapon, room.players[i].isAlive>>]

C9_ResetRestoresPlayers ==
    \A r \in DOMAIN rooms, sp1 \in SpawnPicks, sp2 \in SpawnPicks :
        LET once == resetRoom(rooms[r], sp1).room
            twice == resetRoom(once, sp2).room
        IN  /\ Lobby(once)
            /\ \A p \in Players(once) : Fresh(p)
            /\ Len(once.players) = Len(rooms[r].players)
            /\ Vitals(twice) = Vitals(once)
            /\ Lobby(twice)

\* C9 witness: an Ended room whose reset is due, holding a dead player with a
\* spent round
C9_ResetDueWithDeadPlayer ==
    \E r \in DOMAIN rooms :
        /\ Ended(rooms[r])
        /\ rooms[r].resetTimers # <<>>
        /\ Head(rooms[r].resetTimers) <= now
        /\ \E p \in Players(rooms[r]) : ~p.isAlive /\ p.health = 0 /\ p.ammo < RifleAmmo

(***************************************************************************)
(* C10.  In every reachable state with an Active deathmatch room of two    *)
(* players, one of them at health 0, the tick ends the game: after it the  *)
(* room is Ended and its winner is the surviving player.                   *)
(* Refuted: the tick runs GameManager.update(), which walks a Map of rooms *)
(* that nothing fills, and RoomManager.updateAllRooms(), which only evicts *)
(* idle players and deletes empty rooms; neither checks a win condition    *)
(* on the registry's rooms, so the room stays Active.                      *)
(***************************************************************************)
DuelDecided(room) ==
    /\ Active(room)
    /\ room.gameMode = "deathmatch"
    /\ Len(room.players) = 2
    /\ \E p, q \in Players(room) : p.health = 0 /\ q.health > 0 /\ q.isAlive

Survivor(room) == CHOOSE q \in Players(room) : q.health > 0

C10_TickEndsDecidedDuel ==
    \A r \in DOMAIN rooms :
        DuelDecided(rooms[r])
            => LET post == tick(rooms, now)
               IN  /\ r \in DOMAIN post
                   /\ Ended(post[r])
                   /\ post[r].gameState.winner
                         \in {Survivor(rooms[r]).username, Survivor(rooms[r]).playerId}

(***************************************************************************)
(* C11.  In every reachable state, the win check on an Active deathmatch   *)
(* room with at most one living player ends the game: with one living      *)
(* player that player is the recorded winner, with none the game is over   *)
(* and no winner is recorded.                                              *)
(* Refuted: with no living player checkDeathmatchWinCondition reads        *)
(* alivePlayers[0].playerId, which throws a TypeError before endGame is    *)
(* called; the game is not ended and nothing is emitted.                   *)
(***************************************************************************)
Living(room) == SelectSeq(room.players, LAMBDA p : p.isAlive)

C11_WinCheckEndsFreeForAll ==
    \A r \in DOMAIN rooms :
        LET room == rooms[r]
            check == checkWinConditions(room)
        IN  (Active(room) /\ room.gameMode = "deathmatch" /\ Len(Living(room)) <= 1)
               => /\ ~check.threw
                  /\ check.room.gameState.isGameOver
                  /\ Len(check.events) = 1
                  /\ check.room.gameState.winner =
                        IF Len(Living(room)) = 1 THEN Living(room)[1].playerId ELSE NULL

(***************************************************************************)
(* C12.  In every reachable state and for every room of a team mode, the   *)
(* win check names team B the winner when team A has no living player      *)
(* (whether or not team B has one), team A when team A has a living player *)
(* and team B has none, and no winner when both teams have one.  This      *)
(* holds of RoomManager.determineWinner ("Team B", "Team A", null) and of   *)
(* GameManager.checkTeamWinCondition ("B", "A", game not ended).           *)
(***************************************************************************)
TeamMode(room) == room.gameMode \in {"teamDeathmatch", "elimination"}

LivingOf(room, team) == SelectSeq(Living(room), LAMBDA p : p.team = team)

C12_TeamWinner ==
    \A r \in DOMAIN rooms :
        LET room == rooms[r]
            noA == Len(LivingOf(room, "A")) = 0
            noB == Len(LivingOf(room, "B")) = 0
            check == checkWinConditions(room)
        IN  TeamMode(room)
               => /\ ~check.threw
                  /\ noA => /\ determineWinner(room) = "Team B"
                            /\ check.room.gameState.isGameOver
                            /\ check.room.gameState.winner = "B"
                  /\ (~noA /\ noB) => /\ determineWinner(room) = "Team A"
                                      /\ check.room.gameState.isGameOver
                                      /\ check.room.gameState.winner = "A"
                  /\ (~noA /\ ~noB) => /\ determineWinner(room) = NULL
                                       /\ check.room = room
                                       /\ check.events = <<>>

\* C12 witness: a team room with players in both teams, none of them alive
C12_BothTeamsDead ==
    \E r \in DOMAIN rooms :
        /\ TeamMode(rooms[r])
        /\ \E p, q \in Players(rooms[r]) : p.team = "A" /\ q.team = "B"
        /\ Len(Living(rooms[r])) = 0

(***************************************************************************)
(* C13.  Every step in which a room's game stops being Active is an        *)
(* endGame: the room is Ended after it, one more round is counted (the     *)
(* game_ended notification of endGame) and one more reset is scheduled;    *)
(* and while a room stays Ended no step changes its winner, counts another *)
(* round or schedules another reset.                                       *)
(* Refuted: the reset that an earlier game scheduled is not cancelled when *)
(* a join restarts the game before it is due, and it then puts the room of *)
(* the running game back to Lobby, with no game_ended and no reset of that *)
(* game's own.                                                             *)
(***************************************************************************)
C13_OneEndPerGame ==
    [][\A r \in DOMAIN rooms :
        /\ (Active(rooms[r]) /\ (r \notin DOMAIN rooms' \/ ~Active(rooms'[r])))
              => /\ r \in DOMAIN rooms'
                 /\ Ended(rooms'[r])
                 /\ rooms'[r].stats.roundsPlayed = rooms[r].stats.roundsPlayed + 1
                 /\ Len(rooms'[r].resetTimers) = Len(rooms[r].resetTimers) + 1
        /\ (Ended(rooms[r]) /\ r \in DOMAIN rooms' /\ Ended(rooms'[r]))
              => /\ rooms'[r].gameState.winner = rooms[r].gameState.winner
                 /\ rooms'[r].stats.roundsPlayed = rooms[r].stats.roundsPlayed
                 /\ rooms'[r].resetTimers = rooms[r].resetTimers]_vars

(***************************************************************************)
(* C14.  In every reachable state, a player_shoot from a client whose      *)
(* player is dead or not in the room is rejected without running           *)
(* validateShooting: the handler leaves the validator's rate-limit         *)
(* windows, shot histories, last-shot times and violation counts as they   *)
(* were.                                                                   *)
(* Refuted: handlePlayerShoot calls antiCheat.validateShooting first, with *)
(* only the client record looked at; the shooter's existence and alive     *)
(* flag are tested later, in processShot.                                  *)
(***************************************************************************)
DeadOrAbsent(cl, rs, s) ==
    /\ cl[s].roomId \in DOMAIN rs
    /\ \/ ~HasPlayer(rs[cl[s].roomId].players, cl[s].playerId)
       \/ ~GetPlayer(rs[cl[s].roomId].players, cl[s].playerId).isAlive

C14_DeadShooterNotValidated ==
    \A s \in DOMAIN clients, data \in ShootInputs :
        DeadOrAbsent(clients, rooms, s)
           => LET h == handlePlayerShoot(antiCheat, clients, rooms, s, data, now)
              IN  /\ ~h.validated
                  /\ h.antiCheat = antiCheat

(***************************************************************************)
(* C15.  In every reachable state, a shot that processShot accepts (the    *)
(* shooter alive, the cooldown over, ammo left) leaves the shooter with    *)
(* one round less, lastShotTime at the current time and canShoot false.    *)
(* Refuted: processShot writes ammo and lastShotTime only; canShoot, set   *)
(* to true when the player is created, is written by no operation that     *)
(* runs on the registry's rooms, so it is still true after the shot.       *)
(***************************************************************************)
Rejected(ret) ==
    ret.kind = "null" \/ ret.reason = "Rate limited" \/ ret.reason = "No ammo"

C15_AcceptedShotEffects ==
    \A r \in DOMAIN rooms, shooterId \in ArenaIds, shotData \in ArenaShots :
        LET h == processShot(rooms, r, shooterId, shotData, now)
            before == GetPlayer(rooms[r].players, shooterId)
            after == GetPlayer(h.rooms[r].players, shooterId)
        IN  ~Rejected(h.ret)
               => /\ after.ammo = before.ammo - 1
                  /\ after.lastShotTime = now
                  /\ ~after.canShoot

(***************************************************************************)
(* C16.  In every reachable state, a shot that processShot rejects because *)
(* the cooldown has not elapsed or because the shooter has no round left   *)
(* leaves the registry as it was (every field of every player, and the     *)
(* room's tallies), and no player has a negative number of rounds.         *)
(***************************************************************************)
C16_RejectedShotChangesNothing ==
    /\ \A r \in DOMAIN rooms, shooterId \in ArenaIds, shotData \in ArenaShots :
          LET h == processShot(rooms, r, shooterId, shotData, now)
          IN  h.ret.reason \in {"Rate limited", "No ammo"} => h.rooms = rooms
    /\ \A r \in DOMAIN rooms : \A p \in Players(rooms[r]) : p.ammo >= 0

\* C16 witness: a living player who fired the last round after the start,
\* waited the cooldown out, and whose next shot is refused for want of ammo,
\* next to a living player with rounds whose cooldown is still running
C16_EmptyAndCoolingDown ==
    \E r \in DOMAIN rooms : \E p, q \in Players(rooms[r]) :
        /\ p.ammo = 0 /\ p.lastShotTime > ArenaStart
        /\ processShot(rooms, r, p.playerId,
                       [origin |-> NoVector, direction |-> <<1, 0, 0>>], now).ret.reason
              = "No ammo"
        /\ q.ammo > 0
        /\ processShot(rooms, r, q.playerId,
                       [origin |-> NoVector, direction |-> <<1, 0, 0>>], now).ret.reason
              = "Rate limited"

(***************************************************************************)
(* C17.  In every reachable state, after the tick a living player's        *)
(* canShoot flag tells whether the weapon's cooldown is over: it is false  *)
(* while less than 1000 / fireRate ms have passed since the player's last  *)
(* accepted shot and true from then on; and a living player with the flag  *)
(* set and a round left has the next shot accepted.                        *)
(* Refuted: no accepted shot clears the flag (C15) and the tick refreshes  *)
(* nothing on the registry's rooms, so the flag is true during the         *)
(* cooldown as well.                                                       *)
(***************************************************************************)
CooldownOver(p, t) == (t - p.lastShotTime) * getWeaponFireRate(p.currentWeapon) >= 1000

C17_FlagFollowsCooldown ==
    LET post == tick(rooms, now)
    IN  \A r \in DOMAIN post : \A p \in Players(post[r]) :
            p.isAlive
               => /\ p.canShoot <=> CooldownOver(p, now)
                  /\ (p.canShoot /\ CooldownOver(p, now) /\ p.ammo > 0)
                        => \A shotData \in ArenaShots :
                              ~Rejected(processShot(post, r, p.playerId, shotData, now).ret)

(***************************************************************************)
(* C18.  In every reachable state, for every player of a room as shooter   *)
(* and every shot: calculateHit reports a hit exactly when some other,     *)
(* living player stands within 0.5 of the ray, at a distance along the ray *)
(* that is at least 0 and at most the weapon's range; the target is then   *)
(* the one of these players nearest along the ray, the first in the        *)
(* room's order when several are equally near; without such a player the   *)
(* shot misses.  So the target is never the shooter nor a dead player.     *)
(***************************************************************************)
\* how far along the ray the player stands, and how far off it (squared)
Along(origin, direction, player) ==
    dotProduct(subtractVectors(player.position, origin), direction)

OffRaySq(origin, direction, player) ==
    distanceSq(player.position, origin)
       - Along(origin, direction, player) * Along(origin, direction, player)

InLine(origin, direction, player, weapon) ==
    /\ Along(origin, direction, player) >= 0
    /\ Along(origin, direction, player) <= getWeaponRange(weapon) * Grid
    /\ 4 * OffRaySq(origin, direction, player) <= Grid * Grid

C18_HitIsNearestLivingInLine ==
    \A r \in DOMAIN rooms, shotData \in ArenaShots :
        \A s \in 1..Len(rooms[r].players) :
            LET ps == rooms[r].players
                origin == IF shotData.origin = NoVector THEN ps[s].position
                          ELSE shotData.origin
                along(i) == Along(origin, shotData.direction, ps[i])
                inLine == {i \in 1..Len(ps) :
                             /\ i # s
                             /\ ps[i].isAlive
                             /\ InLine(origin, shotData.direction, ps[i],
                                       ps[s].currentWeapon)}
                res == calculateHit(rooms[r], ps[s], shotData)
            IN  /\ res.kind = "hit" <=> inLine # {}
                /\ inLine = {} => res.kind = "miss" /\ res.targetId = NULL
                /\ inLine # {}
                      => \E i \in inLine :
                            /\ res.targetId = ps[i].playerId
                            /\ \A j \in inLine :
                                  along(i) < along(j) \/ (along(i) = along(j) /\ i <= j)

\* C18 witness: the first player alive at the centre; along +x a dead player
\* in front and a living one at the rifle's range, whom the shot hits
C18_DeadInFrontLivingAtRange ==
    \E r \in DOMAIN rooms : \E p, q, t \in Players(rooms[r]) :
        /\ p.isAlive /\ p.position = Centre
        /\ ~q.isAlive /\ q.position = InFront
        /\ t.isAlive /\ t.position = AtRange
        /\ calculateHit(rooms[r], p, [origin |-> NoVector, direction |-> <<1, 0, 0>>]).targetId
              = t.playerId

(***************************************************************************)
(* C19.  In every reachable state (every room has respawnEnabled), a       *)
(* player who is not alive has a respawn deadline, at most RespawnDelay    *)
(* ahead, and after a tick no player whose deadline has passed is still    *)
(* dead.                                                                   *)
(* Refuted: neither processShot nor processDamage writes a respawn time    *)
(* when the target dies, and the tick respawns nobody: a dead player has   *)
(* no deadline and stays dead until the room is reset or a game starts.    *)
(***************************************************************************)
C19_DeadHaveRespawnDeadline ==
    /\ \A r \in DOMAIN rooms : \A p \in Players(rooms[r]) :
          ~p.isAlive => /\ p.respawnTime # NoTime
                        /\ p.respawnTime <= now + RespawnDelay
    /\ LET post == tick(rooms, now)
       IN  \A r \in DOMAIN post : \A p \in Players(post[r]) :
              (p.respawnTime # NoTime /\ p.respawnTime <= now) => p.isAlive

(***************************************************************************)
(* C20.  In every reachable state with a deathmatch room of maxPlayers 8   *)
(* that two joins have started, and two living players A and B of it, B    *)
(* at full health and neither with a kill or a death: if three shots of A  *)
(* one rifle cooldown apart are all accepted and all hit B, they leave B   *)
(* at health 65, 30 and 0; after the third B is not alive, A has 1 kill, B *)
(* has 1 death, and B's respawn is scheduled RespawnDelay after it.        *)
(* Refuted in its last part only: the third shot kills B and schedules no  *)
(* respawn (C19).                                                          *)
(***************************************************************************)
ThreeShots(r, a, shotData) ==
    LET s1 == processShot(rooms, r, a, shotData, now)
        s2 == processShot(s1.rooms, r, a, shotData, now + Cooldown)
        s3 == processShot(s2.rooms, r, a, shotData, now + 2 * Cooldown)
    IN  <<s1, s2, s3>>

AllHit(shots, b) == \A i \in 1..3 : shots[i].ret.kind = "hit" /\ shots[i].ret.targetId = b

StartOfDuel(room, a, b) ==
    /\ room.gameMode = "deathmatch" /\ room.maxPlayers = DefaultMaxPlayers
    /\ Active(room)
    /\ a # b /\ HasPlayer(room.players, a) /\ HasPlayer(room.players, b)
    /\ GetPlayer(room.players, a).isAlive
    /\ GetPlayer(room.players, a).currentWeapon = "rifle"
    /\ GetPlayer(room.players, a).kills = 0
    /\ GetPlayer(room.players, b).isAlive
    /\ GetPlayer(room.players, b).health = maxHealth
    /\ GetPlayer(room.players, b).deaths = 0

C20_ThreeRifleHitsKill ==
    \A r \in DOMAIN rooms, a \in ArenaIds, b \in ArenaIds, shotData \in ArenaShots :
        (StartOfDuel(rooms[r], a, b) /\ AllHit(ThreeShots(r, a, shotData), b))
           => LET shots == ThreeShots(r, a, shotData)
                  B(i) == GetPlayer(shots[i].rooms[r].players, b)
                  A(i) == GetPlayer(shots[i].rooms[r].players, a)
              IN  /\ B(1).health = 65 /\ B(2).health = 30 /\ B(3).health = 0
                  /\ B(1).isAlive /\ B(2).isAlive /\ ~B(3).isAlive
                  /\ A(3).kills = 1 /\ B(3).deaths = 1
                  /\ B(3).respawnTime # NoTime
                  /\ B(3).respawnTime = now + 2 * Cooldown + RespawnDelay

(***************************************************************************)
(* GameManager's respawn code (applyDamage, processRespawns,               *)
(* respawnPlayer), as it acts on a room object of the registry.            *)
(***************************************************************************)
\* room.gameConfig.respawnEnabled: createRoom writes true whatever the mode
respawnEnabled(room) == TRUE

\* GameManager.gameModes[mode].respawnEnabled, which no code reads
modeRespawnEnabled(mode) == mode # "elimination"

\* GameManager.applyDamage(room, targetId, damage) at time t
applyDamage(room, targetId, damage, t) ==
    IF ~HasPlayer(room.players, targetId) \/ ~GetPlayer(room.players, targetId).isAlive
    THEN room
    ELSE LET target == GetPlayer(room.players, targetId)
             health == Max(0, target.health - damage)
             t1 == IF health <= 0
                   THEN [target EXCEPT !.health = health, !.isAlive = FALSE,
                                       !.respawnTime = t + RespawnDelay]
                   ELSE [target EXCEPT !.health = health]
         IN  [room EXCEPT !.players = MapSet(@, t1)]

\* GameManager.respawnPlayer(room, playerId)
respawnPlayer(room, playerId, pick) ==
    IF ~HasPlayer(room.players, playerId) THEN room
    ELSE [room EXCEPT !.players =
             MapSet(@, [GetPlayer(room.players, playerId) EXCEPT
                           !.health = maxHealth, !.isAlive = TRUE,
                           !.respawnTime = NoTime,
                           !.position = getRandomSpawnPoint(room, pick),
                           !.currentWeapon = "rifle", !.ammo = RifleAmmo,
                           !.lastShotTime = 0])]

\* GameManager.processRespawns(room, currentTime), from player i on
RECURSIVE respawnsFrom(_, _, _)
respawnsFrom(room, i, t) ==
    IF i > Len(room.players) THEN room
    ELSE LET p == room.players[i]
             due == ~p.isAlive /\ p.respawnTime # NoTime /\ t >= p.respawnTime
         IN  respawnsFrom(IF due THEN respawnPlayer(room, p.playerId, 0) ELSE room,
                          i + 1, t)

processRespawns(room, t) ==
    IF ~respawnEnabled(room) THEN room ELSE respawnsFrom(room, 1, t)

TeamSize(room, team) == Len(SelectSeq(room.players, LAMBDA p : p.team = team))

Balanced(room) ==
    /\ TeamSize(room, "A") - TeamSize(room, "B") <= 1
    /\ TeamSize(room, "B") - TeamSize(room, "A") <= 1

\* a fresh room of the mode after the first n players have joined it
RECURSIVE joinedRoom(_, _)
joinedRoom(mode, n) ==
    IF n = 0 THEN createRoom(<<>>, 1, mode, DefaultMaxPlayers).rooms
    ELSE addPlayerToRoom(joinedRoom(mode, n - 1), 1, Name("p", n), Name("s", n),
                         [p \in AllPlayerIds |-> 0], StartTime).rooms

AtCap(rs) == Cardinality(DOMAIN rs) >= maxRooms

C23_RoomCapHolds ==
    /\ Cardinality(DOMAIN rooms) <= maxRooms
    /\ \A mode \in GameModes, requested \in RequestedMaxPlayers :
          LET cr == createRoom(rooms, nextRoomId, mode, requested)
          IN  /\ AtCap(rooms) => cr.roomId = NoRoom /\ cr.rooms = rooms
              /\ ~AtCap(rooms) => /\ cr.roomId = nextRoomId
                                  /\ DOMAIN cr.rooms = DOMAIN rooms \cup {nextRoomId}
                                  /\ \A r \in DOMAIN rooms : cr.rooms[r] = rooms[r]
    /\ AtCap(rooms)
          => \A s \in Sockets, mode \in GameModes, requested \in RequestedMaxPlayers,
                sp \in SpawnPicks :
                clients[s].status = "open"
                   => LET h == handleCreateRoom(clients, rooms, s, nextRoomId, mode,
                                                requested, sp, now)
                      IN  /\ h.rooms = rooms
                          /\ h.clients = clients
                          /\ h.roomId = NoRoom
                          /\ Len(h.events) = 1
                          /\ h.events[1].ev = "error"
                          /\ h.events[1].reason
                                = IF clients[s].playerId = NULL
                                  THEN "Not authenticated" ELSE "Failed to create room"

\* C23 witness: the registry is full and an authenticated client that is in
\* no room can send create_room
C23_FullRegistryAndIdleClient ==
    /\ Cardinality(DOMAIN rooms) = maxRooms
    /\ \E s \in Sockets :
          /\ clients[s].status = "open"
          /\ clients[s].playerId # NULL
          /\ clients[s].roomId = NoRoom

(***************************************************************************)
(* C24.  In every reachable state, the registry that a tick leaves holds   *)
(* no room with zero players, and no player whose lastActivity is more     *)
(* than InactivityTimeout old.                                             *)
(* Refuted: updateAllRooms tests players.size === 0 before it calls        *)
(* cleanupInactivePlayers, so a room whose last players are purged by this *)
(* tick is still in the registry, empty, when the tick has completed; it   *)
(* is deleted by the next tick.                                            *)
(***************************************************************************)
C24_TickLeavesNoEmptyRoom ==
    LET post == tick(rooms, now)
    IN  \A r \in DOMAIN post :
           /\ Len(post[r].players) > 0
           /\ \A p \in Players(post[r]) : now - p.lastActivity <= InactivityTimeout


(***************************************************************************)
(* C25.  The speed limit of the movement validator is inclusive: for a     *)
(* player with a previous sample and an elapsed time in (0, 1000] ms, a    *)
(* sample whose implied speed (distance / elapsed) is exactly the maximum  *)
(* speed is accepted, and every sample whose implied speed is greater is   *)
(* rejected.  The implied speed is compared on squares, in steps per ms.   *)
(***************************************************************************)
ImpliedSq(distSq) == distSq * (1000 \div MoveGrid) * (1000 \div MoveGrid)
AllowedSq(elapsed) == (maxMovementSpeed * elapsed) * (maxMovementSpeed * elapsed)

C25_SpeedLimitIsInclusive ==
    LET last == antiCheat.lastPosition[MovePlayer]
        elapsed == now - antiCheat.lastPositionTime[MovePlayer]
    IN  (last # NoVector /\ elapsed > 0 /\ elapsed <= MaxDelta) =>
            \A position \in MoveInputs \ {NoVector} :
                LET distSq == distanceSq(last, position)
                    ok == validateMovement(antiCheat, MovePlayer, position, now).ok
                IN  /\ ImpliedSq(distSq) = AllowedSq(elapsed) => ok
                    /\ ImpliedSq(distSq) > AllowedSq(elapsed) => ~ok

\* C25 witness: two samples were accepted after the first, so that the last
\* one, a step further in one step's time, came at exactly the maximum speed
C25_AcceptedAtFullSpeed ==
    /\ antiCheat.movementHistory[MovePlayer] = <<Pos(1, 0, 0), Pos(2, 0, 0)>>
    /\ antiCheat.lastPositionTime[MovePlayer] = StartTime + 2 * StepTime
    /\ antiCheat.movement[MovePlayer] = 0


(***************************************************************************)
(* C26.  validateMovement accepts the first sample of a player whatever    *)
(* its position, and rejects a later sample that comes 0 ms or less, or    *)
(* more than 1000 ms, after the player's last accepted one: the rejection  *)
(* records a movement violation and leaves the last known position and     *)
(* its timestamp as they were.  Recorded(before, after, p, type): the      *)
(* count of the category went up by one, or it reached the threshold and   *)
(* the kick deleted the record.                                            *)
(***************************************************************************)
Recorded(before, after, p, type) ==
    IF before[type][p] + 1 >= violationThresholds[type]
    THEN after[type][p] = 0
    ELSE after[type][p] = before[type][p] + 1

C26_FirstAcceptedStaleRejected ==
    LET last == antiCheat.lastPosition[MovePlayer]
        elapsed == now - antiCheat.lastPositionTime[MovePlayer]
    IN  \A position \in MoveInputs \ {NoVector} :
            LET res == validateMovement(antiCheat, MovePlayer, position, now)
            IN  /\ last = NoVector => res.ok
                /\ (last # NoVector /\ (elapsed <= 0 \/ elapsed > MaxDelta)) =>
                       /\ ~res.ok
                       /\ Recorded(antiCheat, res.ac, MovePlayer, "movement")
                       /\ res.ac.lastPosition[MovePlayer] = last
                       /\ res.ac.lastPositionTime[MovePlayer]
                              = antiCheat.lastPositionTime[MovePlayer]

\* C26 witness: the first sample was accepted at the present instant and a
\* second one of the same millisecond has been counted as a violation
C26_SameMsSampleCounted ==
    /\ antiCheat.lastPosition[MovePlayer] # NoVector
    /\ antiCheat.lastPositionTime[MovePlayer] = now
    /\ antiCheat.movementHistory[MovePlayer] = <<>>
    /\ antiCheat.movement[MovePlayer] >= 1


(***************************************************************************)
(* C27.  A sample that turns by more than 90 degrees against the step      *)
(* accepted before it (the vector between the last two entries of the      *)
(* movement history) less than 50 ms after that step is rejected, also     *)
(* when its speed is within the limit.                                     *)
(***************************************************************************)
C27_SharpTurnRejected ==
    LET history == antiCheat.movementHistory[MovePlayer]
        elapsed == now - antiCheat.lastPositionTime[MovePlayer]
    IN  (Len(history) >= 2 /\ elapsed > 0 /\ elapsed < 50) =>
            \A position \in MoveInputs \ {NoVector} :
                LET previous == subtractVectors(history[Len(history)],
                                                history[Len(history) - 1])
                    reported == subtractVectors(position, history[Len(history)])
                IN  angleAbove90(previous, reported) =>
                        ~validateMovement(antiCheat, MovePlayer, position, now).ok


(***************************************************************************)
(* C28.  With maxShootingRate = 10, the eleventh of eleven validateShooting *)
(* calls made for one player within one second is rejected and a shooting  *)
(* violation is recorded for the player, whatever the spacing of the       *)
(* calls.  EleventhRejected(ac, t): that holds of the bursts that start at *)
(* t with the validator in state ac.                                       *)
(***************************************************************************)
EleventhRejected(ac, t) ==
    \A gaps \in Bursts, shotData \in ShootInputs :
        LET before == validateBurst(ac, FirePlayer, ShootInputs_Valid, t, gaps)
            res == validateShooting(before.ac, FirePlayer, shotData, before.t)
        IN  /\ ~res.ok
            /\ Recorded(before.ac, res.ac, FirePlayer, "shooting")

\* C28 as stated: the eleventh call of every burst is rejected, whatever the
\* validator has seen of the player before the burst
C28_EleventhCallRejected == EleventhRejected(antiCheat, now)

\* C28 for a burst before which the rate limiter has counted no validation
\* of the player for a second: the eleventh call is rejected and a shooting
\* violation is recorded
C28_EleventhAfterQuietSecondRejected ==
    (\A i \in 1..Len(antiCheat.rateLimits[FirePlayer]) :
        antiCheat.rateLimits[FirePlayer][i] < now - RateWindow)
    => EleventhRejected(antiCheat, now)

\* C28 witness: ten validations of the first second were counted, two of
\* them accepted, and nine violations are on record: eight of the counted
\* ones and the eleventh call's
C28_ElevenCallsNineViolations ==
    /\ now <= StartTime + RateWindow
    /\ Len(antiCheat.rateLimits[FirePlayer]) = maxShootingRate
    /\ Len(antiCheat.shotHistory[FirePlayer]) = 2
    /\ antiCheat.shooting[FirePlayer] = ShootingThreshold - 1


(***************************************************************************)
(* C29.  The violation that brings a category's count to its threshold     *)
(* (here the fifth movement violation) triggers the kick, and the kick     *)
(* clears the player's violation record and the player's sample state:     *)
(* last position and its timestamp, movement history, shot history and     *)
(* the timestamp of the last shot.                                         *)
(***************************************************************************)
C29_KickClearsViolationsAndSamples ==
    \A position \in MoveInputs :
        LET res == validateMovement(antiCheat, MovePlayer, position, now)
        IN  (~res.ok /\ antiCheat.movement[MovePlayer] + 1 >= MovementThreshold
                /\ res.ac.movement # antiCheat.movement) =>
                /\ res.ac.movement[MovePlayer] = 0
                /\ res.ac.shooting[MovePlayer] = 0
                /\ res.ac.general[MovePlayer] = 0
                /\ res.ac.lastPosition[MovePlayer] = NoVector
                /\ res.ac.lastPositionTime[MovePlayer] = 0
                /\ res.ac.movementHistory[MovePlayer] = <<>>
                /\ res.ac.shotHistory[MovePlayer] = <<>>
                /\ res.ac.lastShotTime[MovePlayer] = 0


(***************************************************************************)
(* C30.  While a room's game is Ended, a player_shoot or a player_damage   *)
(* that the room processes changes no player's health, alive flag, ammo,   *)
(* kills, deaths or score, and none of the room's tallies.                 *)
(***************************************************************************)
Tallies(room) ==
    [players |-> [i \in 1..Len(room.players) |->
                     LET p == room.players[i]
                     IN  <<p.playerId, p.health, p.isAlive, p.ammo, p.kills,
                           p.deaths, p.score>>],
     stats |-> room.stats]

C30_EndedRoomRejectsCombat ==
    \A r \in DOMAIN rooms :
        rooms[r].gameState.isGameOver =>
            /\ \A shooterId \in Keys(rooms[r].players), shotData \in ShotInputs :
                  Tallies(processShot(rooms, r, shooterId, shotData, now).rooms[r])
                      = Tallies(rooms[r])
            /\ \A attackerId, targetId \in Keys(rooms[r].players),
                   reported \in DamageInputs :
                  Tallies(processDamage(rooms, r, attackerId, targetId,
                                        reported).rooms[r])
                      = Tallies(rooms[r])

(***************************************************************************)
(* C31.  No inbound event is fatal: in every reachable state, for every    *)
(* connection and payload, the handlers of player_move, player_rotate,     *)
(* player_shoot, player_reload and player_damage complete without throwing *)
(* (join_room, leave_room, create_room, disconnect and the tick have no    *)
(* throwing path over the registry's rooms).                               *)
(***************************************************************************)
C31_NoEventThrows ==
    \A s \in DOMAIN clients :
        /\ ~handlePlayerRotate(clients, rooms, s).threw
        /\ ~handlePlayerReload(clients, rooms, s).threw
        /\ ~handlePlayerDamage(clients, rooms, s).threw
        /\ \A data \in ShootInputs :
               ~handlePlayerShoot(antiCheat, clients, rooms, s, data, now).threw
        /\ \A playerId \in PlayerIds, position \in MoveInputs :
               ~handlePlayerMove(antiCheat, clients, rooms, s,
                                 [playerId |-> playerId, position |-> position],
                                 now).threw

(***************************************************************************)
(* C32.  A join_room of an authenticated client that names a room the      *)
(* registry does not hold, or a room that is full, reports an error to the *)
(* caller alone and changes nothing: the client records (so the caller's   *)
(* room) and every room are as before.                                     *)
(***************************************************************************)
C32_FailedJoinChangesNothing ==
    \A s \in Sockets, roomId \in RoomIds \cup {MaxRoomIds + 1}, sp \in SpawnPicks :
        LET h == handleJoinRoom(clients, rooms, s, roomId, sp, now)
            unknown == roomId \notin DOMAIN rooms
            full == ~unknown /\ Len(rooms[roomId].players) >= rooms[roomId].maxPlayers
        IN  (clients[s].status = "open" /\ clients[s].playerId # NULL
                /\ (unknown \/ full)) =>
                /\ h.clients = clients
                /\ h.rooms = rooms
                /\ Len(h.events) = 1
                /\ h.events[1].ev = "error"
                /\ h.events[1].to = {s}

\* C32 witness: a client is a member of a room, so that its join_room of an
\* unknown room fails, and the room is full, so that the join_room of a
\* second authenticated client fails
C32_MemberAndFullRoom ==
    \E s, o \in Sockets, r \in DOMAIN rooms :
        /\ s # o
        /\ clients[s].status = "open" /\ clients[s].roomId = r
        /\ HasPlayer(rooms[r].players, clients[s].playerId)
        /\ RoomIsFull(rooms[r])
        /\ clients[o].status = "open" /\ clients[o].playerId # NULL
        /\ clients[o].roomId = NoRoom

(***************************************************************************)
(* C33.  The broadcasts of one event are emitted in the order of the       *)
(* changes they report: whenever a join_room starts a game, player_joined  *)
(* and room_joined come before game_started, and whenever a leave_room     *)
(* ends the game, player_left comes before game_ended.                     *)
(***************************************************************************)
Precedes(events, first, then) ==
    \A i, j \in 1..Len(events) :
        (events[i].ev \in first /\ events[j].ev = then
            /\ events[i].room = events[j].room) => i < j

C33_BroadcastsInOrderOfChanges ==
    \A s \in Sockets :
        /\ \A roomId \in RoomIds, sp \in SpawnPicks :
              Precedes(handleJoinRoom(clients, rooms, s, roomId, sp, now).events,
                       {"player_joined", "room_joined"}, "game_started")
        /\ Precedes(handleLeaveRoom(clients, rooms, s, now).events,
                    {"player_left"}, "game_ended")

(***************************************************************************)
(* C34.  The reset that endGame schedules acts only on a room that is      *)
(* still Ended from the game that scheduled it: no step takes a room with  *)
(* a running game from Active to Lobby (the step in which resetRoom would  *)
(* also restore the players' health, ammo and positions mid-game).         *)
(***************************************************************************)
C34_ResetOnlyWhileEnded ==
    [][\A r \in DOMAIN rooms :
          (Active(rooms[r]) /\ r \in DOMAIN rooms') => ~Lobby(rooms'[r])]_vars


(***************************************************************************)
(* C35: a connected client's roomId is R exactly when its playerId is a    *)
(* key of room R's player map and R is in the registry: the connection's   *)
(* view of its membership and the room's player map never disagree, also   *)
(* after the idle eviction, the removal of an empty room, and when two     *)
(* connections authenticated with the same player id.                      *)
(***************************************************************************)
C35_ClientRoomMatchesPlayerMap ==
    \A s \in DOMAIN clients : \A r \in RoomIds :
        (clients[s].status = "open" /\ clients[s].playerId # NULL) =>
            (clients[s].roomId = r <=>
                (r \in DOMAIN rooms /\ clients[s].playerId \in Keys(rooms[r].players)))


(***************************************************************************)
(* C36: a room that is in Lobby with two or more members, as a reset       *)
(* leaves it, eventually has a running game again; it does not wait in     *)
(* Lobby for a further join.                                               *)
(***************************************************************************)
C36_LobbyOfTwoStarts ==
    \A r \in RoomIds :
        (r \in DOMAIN rooms /\ Lobby(rooms[r]) /\ Len(rooms[r].players) >= 2)
            ~> (r \in DOMAIN rooms /\ Active(rooms[r]))


(***************************************************************************)
(* C37: the movement validation never locks a player out.  Whatever the    *)
(* reason a sample was rejected for, more than a second since the sample   *)
(* accepted last included, a report that follows it a few tens of ms later *)
(* and stays at the position accepted last is accepted.                    *)
(***************************************************************************)
C37_PlausibleReportAcceptedAfterRejection ==
    LET last == antiCheat.lastPosition[MovePlayer]
    IN  last # NoVector =>
            \A position \in MoveInputs \ {NoVector} :
                LET res == validateMovement(antiCheat, MovePlayer, position, now)
                IN  ~res.ok =>
                        \A i \in 1..MaxMoves :
                            validateMovement(res.ac, MovePlayer, last, now + i * StepTime).ok


(***************************************************************************)
(* C38: the anti-cheat samples that a player_move event reads and updates  *)
(* are those of the player id the connection authenticated with, whatever  *)
(* playerId its payload carries: the event leaves the record of every      *)
(* other player as it was.                                                 *)
(***************************************************************************)
C38_MoveTouchesOwnSamplesOnly ==
    \A s \in DOMAIN clients, playerId \in PlayerIds, position \in MoveInputs :
        LET h == handlePlayerMove(antiCheat, clients, rooms, s,
                                  [playerId |-> playerId, position |-> position], now)
        IN  \A other \in AllPlayerIds \ {clients[s].playerId} :
                \A field \in DOMAIN antiCheat :
                    h.antiCheat[field][other] = antiCheat[field][other]


(***************************************************************************)
(* C39: every accepted action of a member refreshes its lastActivity, so   *)
(* that a member who keeps acting at intervals below the inactivity        *)
(* timeout is never evicted as idle.  Here for the shot: a shot that       *)
(* processShot accepts (it consumed a round) leaves the shooter's          *)
(* lastActivity at the present time.                                       *)
(***************************************************************************)
C39_AcceptedShotRefreshesActivity ==
    \A r \in DOMAIN rooms : \A shooterId \in Keys(rooms[r].players) :
        \A shotData \in ArenaShots :
            LET res == processShot(rooms, r, shooterId, shotData, now)
            IN  (res.ret.kind # "null"
                   /\ res.ret.reason \notin {"Rate limited", "No ammo"}) =>
                    GetPlayer(res.rooms[r].players, shooterId).lastActivity = now


(***************************************************************************)
(* C40: whatever number of players a create_room asks for (none, zero, a   *)
(* negative one, one above the cap), the room it creates has a maxPlayers  *)
(* between 1 and the cap, so that a successful create_room leaves its      *)
(* creator a member of the new room.                                       *)
(***************************************************************************)
C40_CreatorIsMemberOfItsRoom ==
    \A s \in DOMAIN clients, mode \in GameModes, sp \in SpawnPicks :
        \A requested \in RequestedMaxPlayers \cup {maxPlayersPerRoom + 1} :
            LET h == handleCreateRoom(clients, rooms, s, nextRoomId, mode,
                                      requested, sp, now)
            IN  h.roomId # NoRoom =>
                    /\ h.rooms[h.roomId].maxPlayers >= 1
                    /\ h.rooms[h.roomId].maxPlayers <= maxPlayersPerRoom
                    /\ h.clients[s].roomId = h.roomId
                    /\ HasPlayer(h.rooms[h.roomId].players, clients[s].playerId)

=============================================================================
